---------------------------- MODULE Spec2Model ----------------------------
(***************************************************************************)
(* Generic views of django.views.generic2: ListView (list.py), DetailView  *)
(* (detail.py), the older DetailView kept in the package's __init__.py and *)
(* the date views (dates.py).                                              *)
(*                                                                         *)
(* One view instance is constructed (Init) and then serves requests; each  *)
(* request is one action that runs the whole __call__ of the view.  The    *)
(* instance is a variable because a request can change it: the list that   *)
(* GenericView.get_template_names returns is the configured list itself.   *)
(*                                                                         *)
(* Python values: None is <<>> and a present value v is <<v>> wherever a   *)
(* value may be None; a str that the code parses or rewrites is a sequence *)
(* of one-character strings; a str that is only compared is a TLA+ string. *)
(***************************************************************************)
EXTENDS Integers, Sequences, FiniteSets, TLC

VARIABLES view,     \* the view instance (its attributes)
          conf,     \* the instance as it was constructed
          resp,     \* what the last request produced
          threads   \* per thread, the month request being rendered

vars == <<view, conf, resp, threads>>

(***************************************************************************)
(* Bounds of the model.                                                    *)
(***************************************************************************)
MaxLen == 3          \* longest collection a ListView is configured with
MaxPer == 2          \* largest paginate_by
MaxNames == 3        \* a view whose template_name list is longer serves no more requests
MaxRows == 2         \* most rows in a detail view's queryset
MaxDated == 2        \* most rows in a date view's queryset
MaxCalls == 2        \* most calls of one callable while a template is rendered

None == <<>>
Some(v) == <<v>>
IsNone(o) == o = <<>>
Val(o) == o[1]

Min(a, b) == IF a <= b THEN a ELSE b
Max(a, b) == IF a >= b THEN a ELSE b

\* ceil(a / b) for a >= 0, b > 0
CeilDiv(a, b) == (a + b - 1) \div b


(***************************************************************************)
(* Strings.  A token taken from the URL or the query string, and a model's *)
(* object_name and verbose_name, are sequences of characters.              *)
(***************************************************************************)
Digits == {"0", "1", "2", "3", "4"}
Uppers == {"B", "D", "K"}
Lowers == {"a", "b", "c", "e", "j", "k", "l", "o", "s", "t", "x"}
TokChars == Digits \cup {"-", " ", "x"}

DigitVal(c) ==
  CASE c = "0" -> 0 [] c = "1" -> 1 [] c = "2" -> 2
    [] c = "3" -> 3 [] c = "4" -> 4

LowerChar(c) == CASE c = "B" -> "b" [] c = "D" -> "d" [] c = "K" -> "k" [] OTHER -> c

\* str.lower()
Lower(s) == [i \in 1..Len(s) |-> LowerChar(s[i])]

IsAlnum(c) == c \in Digits \cup Uppers \cup Lowers

LAST == <<"l", "a", "s", "t">>

\* the page tokens a request may carry: the empty str, every str of one
\* character, and some longer ones
Tokens ==
  {<<>>, LAST, <<"L", "a", "s", "t">>, <<"l", "a", "s", "t", " ">>}
  \cup {<<c>> : c \in TokChars}
  \cup {<<" ", "2">>, <<"2", " ">>, <<"-", "1">>, <<"-", "0">>, <<"0", "2">>,
        <<"1", "0">>, <<"1", "x">>, <<"-", "-">>}

RECURSIVE LStrip(_)
LStrip(s) == IF s # <<>> /\ Head(s) = " " THEN LStrip(Tail(s)) ELSE s

RECURSIVE RStrip(_)
RStrip(s) ==
  IF s # <<>> /\ s[Len(s)] = " " THEN RStrip(SubSeq(s, 1, Len(s) - 1)) ELSE s

RECURSIVE DecimalValue(_)
DecimalValue(s) ==
  IF s = <<>> THEN 0
  ELSE 10 * DecimalValue(SubSeq(s, 1, Len(s) - 1)) + DigitVal(s[Len(s)])

\* int(s) of a str: surrounding blanks are dropped, one sign is allowed, the
\* rest must be decimal digits; anything else is a ValueError (ok = FALSE).
IntOfStr(s) ==
  LET t == RStrip(LStrip(s))
      signed == t # <<>> /\ Head(t) = "-"
      body == IF signed THEN Tail(t) ELSE t
  IN IF body # <<>> /\ \A i \in 1..Len(body) : body[i] \in Digits
       THEN [ok |-> TRUE, val |-> IF signed THEN 0 - DecimalValue(body)
                                            ELSE DecimalValue(body)]
       ELSE [ok |-> FALSE, val |-> 0]

(***************************************************************************)
(* Models, rows and collections.  A collection is a queryset (it has a     *)
(* model; shared tells the configured object from a clone of it) or a      *)
(* plain list (no model).                                                  *)
(***************************************************************************)
NoMeta == [has |-> FALSE, app_label |-> "", object_name |-> <<>>, verbose_name |-> <<>>]

BookMeta == [has |-> TRUE, app_label |-> "generic_views",
             object_name |-> <<"B", "o", "o", "k">>,
             verbose_name |-> <<"b", "o", "o", "k">>]

\* a model whose verbose_name has capitals and runs of other characters
OddMeta == [has |-> TRUE, app_label |-> "app2",
            object_name |-> <<"B", "K">>,
            verbose_name |-> <<"-", "B", "o", " ", "-", "k", " ">>]

Metas == {BookMeta, OddMeta}

\* a row of a model: primary key, two text fields and the field that a
\* view's template_name_field may name ("" when the row has no value)
Row(meta, pk, slug, name, tname) ==
  [pk |-> pk, slug |-> slug, name |-> name, tname |-> tname, meta |-> meta]

\* an object that is no model instance (no _meta)
PlainObject(tname) == [pk |-> 0, slug |-> "", name |-> "", tname |-> tname, meta |-> NoMeta]

NoObject == PlainObject("")

\* getattr(obj, field, None) or ''
Field(obj, field) ==
  CASE field = "slug" -> obj.slug
    [] field = "name" -> obj.name
    [] field = "tname" -> obj.tname
    [] OTHER -> ""

QuerySet(meta, rows) == [isqs |-> TRUE, model |-> meta, rows |-> rows, shared |-> TRUE]
PlainList(rows) == [isqs |-> FALSE, model |-> NoMeta, rows |-> rows, shared |-> TRUE]
NoItems == [isqs |-> FALSE, model |-> NoMeta, rows |-> <<>>, shared |-> FALSE]

\* QuerySet._clone(): a new queryset over the same rows
Clone(qs) == [qs EXCEPT !.shared = FALSE]

\* len(items)
LenOf(items) == Len(items.rows)

\* hasattr(items, 'model')
HasModel(items) == items.isqs


(***************************************************************************)
(* django.core.paginator.Paginator, as list.py uses it: the constructor    *)
(* with allow_empty_first_page, num_pages, and page(), which raises        *)
(* InvalidPage for a number that is no page.                               *)
(***************************************************************************)
Paginator(object_list, per_page, allow_empty_first_page) ==
  [object_list |-> object_list, per_page |-> per_page,
   allow_empty_first_page |-> allow_empty_first_page]

Paginator_count(p) == LenOf(p.object_list)

\* an empty list has one (empty) page when the first page may be empty, and
\* no page otherwise
Paginator_num_pages(p) ==
  IF Paginator_count(p) = 0 /\ ~p.allow_empty_first_page THEN 0
  ELSE CeilDiv(Max(1, Paginator_count(p)), p.per_page)

\* FALSE stands for InvalidPage
Paginator_validate_number(p, number) ==
  /\ number >= 1
  /\ \/ number <= Paginator_num_pages(p)
     \/ number = 1 /\ p.allow_empty_first_page

NoPage == [number |-> 0, object_list |-> NoItems]

\* Paginator.page(number) for a valid number: the slice [bottom:top]
Paginator_page(p, number) ==
  LET bottom == (number - 1) * p.per_page
      top == Min(bottom + p.per_page, Paginator_count(p))
  IN [number |-> number,
      object_list |-> [p.object_list EXCEPT !.rows = SubSeq(@, bottom + 1, top)]]

(***************************************************************************)
(* Template names.  A name is a sequence of pieces so that the convention  *)
(* name "<app>/<model>_<suffix>.html" can be built from the model's        *)
(* metadata; an explicit name is a single piece.                           *)
(***************************************************************************)
Name(s) == <<s>>

ConventionName(meta, suffix) ==
  <<meta.app_label, "/">> \o Lower(meta.object_name) \o <<"_", suffix, ".html">>

\* template_name as configured: None, one name, or a list of names
TplNone == [kind |-> "none", names |-> <<>>]
TplStr(n) == [kind |-> "str", names |-> <<n>>]
TplList(ns) == [kind |-> "list", names |-> ns]

\* GenericView.get_template_names: [] for None, a new one-element list for a
\* string, and otherwise the configured list object itself (aliased), so
\* that what the caller inserts or appends lands in self.template_name.
\* (base.py:102 tests the undefined name `tns`; it is read as `names`.)
GenericView_get_template_names(self) ==
  IF self.template_name.kind = "none" THEN [names |-> <<>>, aliased |-> FALSE]
  ELSE IF self.template_name.kind = "str"
    THEN [names |-> self.template_name.names, aliased |-> FALSE]
  ELSE [names |-> self.template_name.names, aliased |-> TRUE]

\* the view after a caller changed the list get_template_names gave it
StoreNames(self, base, names) ==
  IF base.aliased THEN [self EXCEPT !.template_name.names = names] ELSE self


(***************************************************************************)
(* ListView (list.py).                                                     *)
(***************************************************************************)
Truthy(o) == ~IsNone(o) /\ Val(o) # 0

\* page or request.GET.get('page', 1): the str from the URL if it is not
\* empty, else the str of the query string, else the int 1
EffectivePage(request) ==
  IF ~IsNone(request.page) /\ Val(request.page) # <<>>
    THEN [isint |-> FALSE, n |-> 0, s |-> Val(request.page)]
  ELSE IF ~IsNone(request.GET_page)
    THEN [isint |-> FALSE, n |-> 0, s |-> Val(request.GET_page)]
  ELSE [isint |-> TRUE, n |-> 1, s |-> <<>>]

\* int(page)
IntOfPage(page) == IF page.isint THEN [ok |-> TRUE, val |-> page.n] ELSE IntOfStr(page.s)

Raised(exc) == [exc |-> exc, paginator |-> None, page |-> None, items |-> NoItems]
Returned(paginator, page, items) ==
  [exc |-> "", paginator |-> paginator, page |-> page, items |-> items]

ListView_get_paginate_by(self) == self.paginate_by

\* a view that takes every list for allowed
ListView_get_allow_empty_always(self) == TRUE

ListView_get_allow_empty(self) == self.allow_empty

\* an unparsable token is served as page 1
ListView_page_number_lenient(paginator, page) ==
  LET parsed == IntOfPage(page)
  IN IF parsed.ok THEN [ok |-> TRUE, number |-> parsed.val]
     ELSE [ok |-> TRUE, number |-> 1]

\* 'last' is served as page 1
ListView_page_number_first(paginator, page) ==
  LET parsed == IntOfPage(page)
  IN IF parsed.ok THEN [ok |-> TRUE, number |-> parsed.val]
     ELSE IF ~page.isint /\ page.s = LAST THEN [ok |-> TRUE, number |-> 1]
     ELSE [ok |-> FALSE, number |-> 0]

\* list.py:73-79: int(page), and on ValueError 'last' or Http404 (ok = FALSE)
ListView_page_number(paginator, page) ==
  LET parsed == IntOfPage(page)
  IN IF parsed.ok THEN [ok |-> TRUE, number |-> parsed.val]
     ELSE IF ~page.isint /\ page.s = LAST
       THEN [ok |-> TRUE, number |-> Paginator_num_pages(paginator)]
     ELSE [ok |-> FALSE, number |-> 0]

\* the whole list is returned in place of the page's slice
ListView_page_whole(paginator, page_number) ==
  IF Paginator_validate_number(paginator, page_number)
    THEN Returned(Some(paginator), Some(Paginator_page(paginator, page_number)),
                  paginator.object_list)
    ELSE Raised("Http404")

\* list.py:80-84: paginator.page(page_number), InvalidPage turned into Http404
ListView_page(paginator, page_number) ==
  IF Paginator_validate_number(paginator, page_number)
    THEN LET pg == Paginator_page(paginator, page_number)
         IN Returned(Some(paginator), Some(pg), pg.object_list)
    ELSE Raised("Http404")

ListView_paginate_items(self, request, items) ==
  LET paginate_by == ListView_get_paginate_by(self)
      allow_empty == ListView_get_allow_empty(self)
  IN IF ~Truthy(paginate_by)
       THEN IF ~allow_empty /\ LenOf(items) = 0
              THEN Raised("Http404")
              ELSE Returned(None, None, items)
     ELSE
       LET paginator == Paginator(items, Val(paginate_by), allow_empty)
           number == ListView_page_number(paginator, EffectivePage(request))
       IN IF ~number.ok THEN Raised("Http404")
          ELSE ListView_page(paginator, number.number)

\* the configured queryset itself is used, not a clone of it
ListView_get_items_shared(self, request) ==
  IF ~IsNone(self.queryset)
    THEN ListView_paginate_items(self, request, Val(self.queryset))
  ELSE IF ~IsNone(self.items)
    THEN ListView_paginate_items(self, request, Val(self.items))
  ELSE Raised("ImproperlyConfigured")

ListView_get_items(self, request) ==
  IF ~IsNone(self.queryset)
    THEN ListView_paginate_items(self, request, Clone(Val(self.queryset)))
  ELSE IF ~IsNone(self.items)
    THEN ListView_paginate_items(self, request, Val(self.items))
  ELSE Raised("ImproperlyConfigured")

\* names, and the view after the append
ListView_get_template_names(self, items, suffix) ==
  LET base == GenericView_get_template_names(self)
      names == IF HasModel(items)
                 THEN Append(base.names, ConventionName(items.model, suffix))
                 ELSE base.names
  IN [names |-> names, self |-> StoreNames(self, base, names)]

\* GenericView.get_context as list.py:115 calls it: the context that holds
\* the entries it is given (no context processor is configured)
GenericView_get_context(context) == context

\* Options.verbose_name_plural when the model sets none: verbose_name + 's'
VerboseNamePlural(meta) == meta.verbose_name \o <<"s">>

\* a context key is a sequence of pieces, like a template name
Key(s) == <<s>>

\* d.update(e) of two dicts
Update(d, e) ==
  [k \in DOMAIN d \cup DOMAIN e |-> IF k \in DOMAIN e THEN e[k] ELSE d[k]]

NoContext == [k \in {} |-> 0]

\* Page.has_next, has_previous, has_other_pages, start_index, end_index
Page_has_next(paginator, page) == page.number < Paginator_num_pages(paginator)
Page_has_previous(paginator, page) == page.number > 1
Page_has_other_pages(paginator, page) ==
  Page_has_previous(paginator, page) \/ Page_has_next(paginator, page)
Page_start_index(paginator, page) ==
  IF Paginator_count(paginator) = 0 THEN 0
  ELSE paginator.per_page * (page.number - 1) + 1
Page_end_index(paginator, page) ==
  IF page.number = Paginator_num_pages(paginator) THEN Paginator_count(paginator)
  ELSE page.number * paginator.per_page

\* None (<<>>) or <<key>>
ListView_get_template_object_name(self, items) ==
  IF ~IsNone(self.template_object_name) /\ Val(self.template_object_name) # <<>>
    THEN Some(Val(self.template_object_name) \o <<"_list">>)
  ELSE IF HasModel(items) THEN Some(VerboseNamePlural(items.model))
  ELSE None

ListView_get_legacy_paginated_context(paginator, page) ==
  Key("is_paginated") :> Page_has_other_pages(paginator, page)
  @@ Key("results_per_page") :> paginator.per_page
  @@ Key("has_next") :> Page_has_next(paginator, page)
  @@ Key("has_previous") :> Page_has_previous(paginator, page)
  @@ Key("page") :> page.number
  @@ Key("next") :> page.number + 1
  @@ Key("previous") :> page.number - 1
  @@ Key("first_on_page") :> Page_start_index(paginator, page)
  @@ Key("last_on_page") :> Page_end_index(paginator, page)
  @@ Key("pages") :> Paginator_num_pages(paginator)
  @@ Key("hits") :> Paginator_count(paginator)
  @@ Key("page_range") :> [i \in 1..Paginator_num_pages(paginator) |-> i]

\* getattr(self, 'legacy_context', True)
LegacyContext(self) == IF IsNone(self.legacy_context) THEN TRUE ELSE Val(self.legacy_context)

\* the legacy keys are added whatever legacy_context says
ListView_get_context_always_legacy(self, template_obj_name, items, paginator, page, context) ==
  LET own == Key("paginator") :> paginator
             @@ Key("object_list") :> items
             @@ Key("page_obj") :> page
             @@ Key("is_paginated") :> ~IsNone(paginator)
      ctx == GenericView_get_context(Update(context, own))
      named == IF ~IsNone(template_obj_name) /\ Val(template_obj_name) # <<>>
                 THEN Update(ctx, Val(template_obj_name) :> items)
                 ELSE ctx
  IN IF ~IsNone(paginator)
       THEN Update(named, ListView_get_legacy_paginated_context(Val(paginator), Val(page)))
       ELSE named

\* list.py:103-135; template_obj_name is what self.get_template_object_name
\* returned (a subclass may override it)
ListView_get_context(self, template_obj_name, items, paginator, page, context) ==
  LET own == Key("paginator") :> paginator
             @@ Key("object_list") :> items
             @@ Key("page_obj") :> page
             @@ Key("is_paginated") :> ~IsNone(paginator)
      ctx == GenericView_get_context(Update(context, own))
      named == IF ~IsNone(template_obj_name) /\ Val(template_obj_name) # <<>>
                 THEN Update(ctx, Val(template_obj_name) :> items)
                 ELSE ctx
  IN IF ~IsNone(paginator) /\ LegacyContext(self)
       THEN Update(named, ListView_get_legacy_paginated_context(Val(paginator), Val(page)))
       ELSE named


(***************************************************************************)
(* The queryset operations the detail views use: filter on one field, and  *)
(* get(), which returns the only row, raises DoesNotExist (a subclass of   *)
(* ObjectDoesNotExist) for no row and MultipleObjectsReturned for several. *)
(***************************************************************************)
RECURSIVE SelectRows(_, _, _)
SelectRows(rows, field, value) ==
  IF rows = <<>> THEN <<>>
  ELSE LET rest == SelectRows(Tail(rows), field, value)
           r == Head(rows)
           hit == IF field = "pk" THEN r.pk = value ELSE Field(r, field) = value
       IN IF hit THEN <<r>> \o rest ELSE rest

QuerySet_filter(qs, field, value) ==
  [qs EXCEPT !.rows = SelectRows(@, field, value), !.shared = FALSE]

QuerySet_get(qs) ==
  IF Len(qs.rows) = 1 THEN [exc |-> "", obj |-> qs.rows[1]]
  ELSE IF Len(qs.rows) = 0 THEN [exc |-> "ObjectDoesNotExist", obj |-> NoObject]
  ELSE [exc |-> "MultipleObjectsReturned", obj |-> NoObject]

(***************************************************************************)
(* DetailView (detail.py).                                                 *)
(***************************************************************************)
\* never compared as a whole: value is an int for pk and a str otherwise
NoLookup == [field |-> "", by |-> "", value |-> ""]

ObjRaised(exc, lookup) == [exc |-> exc, obj |-> NoObject, lookup |-> lookup]

\* every error of the lookup is reported as Http404
DetailView_get_catch_all(qs, lookup) ==
  LET got == QuerySet_get(qs)
  IN IF got.exc = "" THEN [exc |-> "", obj |-> got.obj, lookup |-> lookup]
     ELSE ObjRaised("Http404", lookup)

\* qs.get() with ObjectDoesNotExist turned into Http404; any other error of
\* the lookup propagates
DetailView_get(qs, lookup) ==
  LET got == QuerySet_get(qs)
  IN IF got.exc = "" THEN [exc |-> "", obj |-> got.obj, lookup |-> lookup]
     ELSE IF got.exc = "ObjectDoesNotExist" THEN ObjRaised("Http404", lookup)
     ELSE ObjRaised(got.exc, lookup)

\* without an identifier the whole queryset is looked up
DetailView_get_object_unfiltered(self, kwargs) ==
  IF IsNone(self.queryset) THEN ObjRaised("ImproperlyConfigured", NoLookup)
  ELSE
    LET qs == Clone(Val(self.queryset))
    IN IF ~IsNone(kwargs.pk)
         THEN DetailView_get(QuerySet_filter(qs, "pk", Val(kwargs.pk)),
                             [field |-> "pk", by |-> "pk", value |-> Val(kwargs.pk)])
       ELSE IF ~IsNone(kwargs.slug)
         THEN DetailView_get(QuerySet_filter(qs, Val(self.slug_field), Val(kwargs.slug)),
                             [field |-> Val(self.slug_field), by |-> "slug",
                              value |-> Val(kwargs.slug)])
       ELSE IF ~IsNone(kwargs.object_id)
         THEN DetailView_get(QuerySet_filter(qs, "pk", Val(kwargs.object_id)),
                             [field |-> "pk", by |-> "object_id",
                              value |-> Val(kwargs.object_id)])
       ELSE DetailView_get(qs, NoLookup)

\* lookup.field is the field filtered on, lookup.by the keyword that chose it
DetailView_get_object(self, kwargs) ==
  IF IsNone(self.queryset) THEN ObjRaised("ImproperlyConfigured", NoLookup)
  ELSE
    LET qs == Clone(Val(self.queryset))
    IN IF ~IsNone(kwargs.pk)
         THEN DetailView_get(QuerySet_filter(qs, "pk", Val(kwargs.pk)),
                             [field |-> "pk", by |-> "pk", value |-> Val(kwargs.pk)])
       ELSE IF ~IsNone(kwargs.slug)
         THEN DetailView_get(QuerySet_filter(qs, Val(self.slug_field), Val(kwargs.slug)),
                             [field |-> Val(self.slug_field), by |-> "slug",
                              value |-> Val(kwargs.slug)])
       ELSE IF ~IsNone(kwargs.object_id)
         THEN DetailView_get(QuerySet_filter(qs, "pk", Val(kwargs.object_id)),
                             [field |-> "pk", by |-> "object_id",
                              value |-> Val(kwargs.object_id)])
       ELSE ObjRaised("AttributeError", NoLookup)

\* a subclass that overrides get_object returns its own object
\* (ObjectDetail in the tests' views.py)
View_get_object(self, kwargs) ==
  IF ~IsNone(self.get_object)
    THEN [exc |-> "", obj |-> Val(self.get_object), lookup |-> NoLookup]
    ELSE DetailView_get_object(self, kwargs)

\* hasattr(obj, '_meta')
HasMeta(obj) == obj.meta.has

\* the value of self.template_name_field on the object, as a list of 0 or 1 names
FieldName(self, obj) ==
  IF ~IsNone(self.template_name_field)
     /\ Field(obj, Val(self.template_name_field)) # ""
    THEN <<Name(Field(obj, Val(self.template_name_field)))>>
    ELSE <<>>

\* names, and the view after the insert and the append
DetailView_get_template_names(self, obj) ==
  LET base == GenericView_get_template_names(self)
      withfield == FieldName(self, obj) \o base.names
      names == IF HasMeta(obj)
                 THEN Append(withfield, ConventionName(obj.meta, "detail"))
                 ELSE withfield
  IN [names |-> names, self |-> StoreNames(self, base, names)]

RECURSIVE DropNonAlnum(_)
DropNonAlnum(s) ==
  IF s # <<>> /\ ~IsAlnum(Head(s)) THEN DropNonAlnum(Tail(s)) ELSE s

\* the pattern without '+': every other character becomes an underscore
ReSubEachNonAlnum(s) == [i \in 1..Len(s) |-> IF IsAlnum(s[i]) THEN s[i] ELSE "_"]

\* re.sub('[^a-zA-Z0-9]+', '_', s): left to right, each maximal run of
\* other characters becomes one underscore
RECURSIVE ReSubNonAlnum(_)
ReSubNonAlnum(s) ==
  IF s = <<>> THEN <<>>
  ELSE IF IsAlnum(Head(s)) THEN <<Head(s)>> \o ReSubNonAlnum(Tail(s))
  ELSE <<"_">> \o ReSubNonAlnum(DropNonAlnum(s))

\* None (<<>>) or <<name>>
DetailView_get_template_object_name(self, obj) ==
  IF ~IsNone(self.template_object_name) /\ Val(self.template_object_name) # <<>>
    THEN self.template_object_name
  ELSE IF HasMeta(obj) THEN Some(ReSubNonAlnum(Lower(obj.meta.verbose_name)))
  ELSE None

OBJECT == <<"o", "b", "j", "e", "c", "t">>

\* the context: a function from its keys to their values
DetailView_get_context(self, obj) ==
  LET nicename == DetailView_get_template_object_name(self, obj)
      keys == {OBJECT} \cup (IF ~IsNone(nicename) /\ Val(nicename) # <<>>
                               THEN {Val(nicename)} ELSE {})
  IN [k \in keys |-> obj]


(***************************************************************************)
(* The DetailView of the package's __init__.py.                            *)
(***************************************************************************)
\* a or b
Or(a, b) == IF ~IsNone(a) THEN a ELSE b

\* __init__.py:42-46: qs.get() with ObjectDoesNotExist turned into Http404
PkgDetailView_get(qs, lookup) ==
  LET got == QuerySet_get(qs)
  IN IF got.exc = "" THEN [exc |-> "", obj |-> got.obj, lookup |-> lookup]
     ELSE IF got.exc = "ObjectDoesNotExist" THEN ObjRaised("Http404", lookup)
     ELSE ObjRaised(got.exc, lookup)

\* get_object(request, pk, slug); a keyword taken from the URL is a
\* non-empty str, so it is true when it is present
PkgDetailView_get_object(self, pk, slug) ==
  IF IsNone(self.queryset) THEN ObjRaised("ImproperlyConfigured", NoLookup)
  ELSE
    LET qs == Val(self.queryset)
        slug_field == Val(Or(self.slug_field, Some("slug")))
    IN IF ~IsNone(pk)
         THEN PkgDetailView_get(QuerySet_filter(qs, "pk", Val(pk)),
                                [field |-> "pk", by |-> "pk", value |-> Val(pk)])
       ELSE IF ~IsNone(slug)
         THEN PkgDetailView_get(QuerySet_filter(qs, slug_field, Val(slug)),
                                [field |-> slug_field, by |-> "slug", value |-> Val(slug)])
       ELSE ObjRaised("AttributeError", NoLookup)

\* a new list on every call; the convention name is appended for every object
PkgDetailView_get_template_names(self, obj) ==
  FieldName(self, obj)
    \o (IF IsNone(self.template_names) THEN <<>> ELSE Val(self.template_names))
    \o self.template_name.names
    \o <<ConventionName(obj.meta, "detail")>>

PkgDetailView_get_context(self, obj) ==
  LET nicename == IF ~IsNone(self.template_object_name)
                       /\ Val(self.template_object_name) # <<>>
                    THEN Val(self.template_object_name)
                    ELSE ReSubNonAlnum(Lower(obj.meta.verbose_name))
  IN [k \in {OBJECT, nicename} |-> obj]

(***************************************************************************)
(* Calendar dates (datetime.date) as dates.py uses them: comparison,       *)
(* replace(day=1), and adding or subtracting a timedelta of whole days.    *)
(***************************************************************************)
Date(y, m, d) == [year |-> y, month |-> m, day |-> d]

DaysInMonth(y, m) ==
  LET leap == (y % 4 = 0 /\ y % 100 # 0) \/ y % 400 = 0
  IN IF m = 2 THEN (IF leap THEN 29 ELSE 28)
     ELSE IF m \in {4, 6, 9, 11} THEN 30 ELSE 31

DateLT(a, b) ==
  \/ a.year < b.year
  \/ a.year = b.year /\ a.month < b.month
  \/ a.year = b.year /\ a.month = b.month /\ a.day < b.day

DateLE(a, b) == a = b \/ DateLT(a, b)

\* date.replace(day=1)
ReplaceDay1(date) == [date EXCEPT !.day = 1]

FirstOfNextMonth(date) ==
  IF date.month = 12 THEN Date(date.year + 1, 1, 1) ELSE Date(date.year, date.month + 1, 1)

LastOfPreviousMonth(date) ==
  IF date.month = 1 THEN Date(date.year - 1, 12, 31)
  ELSE Date(date.year, date.month - 1, DaysInMonth(date.year, date.month - 1))

\* date + datetime.timedelta(days=n), n >= 0
RECURSIVE AddDays(_, _)
AddDays(date, n) ==
  IF date.day + n <= DaysInMonth(date.year, date.month)
    THEN [date EXCEPT !.day = date.day + n]
    ELSE AddDays(FirstOfNextMonth(date),
                 n - (DaysInMonth(date.year, date.month) - date.day + 1))

\* date - datetime.timedelta(days=n), n >= 0
RECURSIVE SubDays(_, _)
SubDays(date, n) ==
  IF date.day - n >= 1 THEN [date EXCEPT !.day = date.day - n]
  ELSE SubDays(LastOfPreviousMonth(date), n - date.day)

\* datetime.date(year, 1, 1).weekday(): Monday is 0
WeekdayOfJan1(y) ==
  LET p == y - 1
      ordinal == 365 * p + (p \div 4) - (p \div 100) + (p \div 400) + 1
  IN (ordinal + 6) % 7

\* December's month ends in its own year
_month_bounds_same_year(date) ==
  LET first_day == ReplaceDay1(date)
  IN [first_day |-> first_day,
      last_day |-> [first_day EXCEPT !.month = (first_day.month % 12) + 1]]

\* dates.py:374-384: the first day of the date's month and the first day of
\* the month after it (which the code calls last_day)
_month_bounds(date) ==
  LET first_day == ReplaceDay1(date)
  IN [first_day |-> first_day,
      last_day |-> IF first_day.month = 12
                     THEN [first_day EXCEPT !.year = first_day.year + 1, !.month = 1]
                     ELSE [first_day EXCEPT !.month = first_day.month + 1]]

\* dates.py:386-399; the rows' date field is a DateField, so the value has
\* no date() to convert it with
_check_date(date, allow_future, today) ==
  IF ~IsNone(date) /\ (allow_future \/ DateLT(Val(date), today)) THEN date ELSE None


(***************************************************************************)
(* time.strptime as _date_from_string uses it.  The format and the str are *)
(* joined with '__', so every token must match its directive in full: %Y   *)
(* four digits, %b an abbreviated month name in any case, %U one or two    *)
(* digits up to 53.                                                        *)
(***************************************************************************)
AllDigits(s) == \A i \in 1..Len(s) : s[i] \in Digits

\* [ok, val]
ParseYear(s) ==
  IF Len(s) = 4 /\ AllDigits(s) /\ DecimalValue(s) >= 1
    THEN [ok |-> TRUE, val |-> DecimalValue(s)]
    ELSE [ok |-> FALSE, val |-> 0]

ParseMonthName(s) ==
  LET names ==
        <<<<"j", "a", "n">>, <<"f", "e", "b">>, <<"m", "a", "r">>, <<"a", "p", "r">>,
          <<"m", "a", "y">>, <<"j", "u", "n">>, <<"j", "u", "l">>, <<"a", "u", "g">>,
          <<"s", "e", "p">>, <<"o", "c", "t">>, <<"n", "o", "v">>, <<"d", "e", "c">>>>
      hits == {m \in 1..12 : names[m] = Lower(s)}
  IN IF hits # {} THEN [ok |-> TRUE, val |-> CHOOSE m \in hits : TRUE]
     ELSE [ok |-> FALSE, val |-> 0]

ParseWeekNumber(s) ==
  IF Len(s) \in {1, 2} /\ AllDigits(s) /\ DecimalValue(s) <= 53
    THEN [ok |-> TRUE, val |-> DecimalValue(s)]
    ELSE [ok |-> FALSE, val |-> 0]

\* the day of the year (1 is January 1st) of the Sunday ('%w' of '0') of
\* week %U, weeks starting on Sunday and week 0 holding the days before the
\* year's first Sunday
JulianOfSundayOfWeek(year, week_of_year) ==
  LET first_weekday == (WeekdayOfJan1(year) + 1) % 7
      week_0_length == (7 - first_weekday) % 7
  IN IF week_of_year = 0 THEN 1 - first_weekday
     ELSE 1 + week_0_length + 7 * (week_of_year - 1)

\* date.fromordinal((julian - 1) + date(year, 1, 1).toordinal())
DateOfJulian(year, julian) ==
  IF julian >= 1 THEN AddDays(Date(year, 1, 1), julian - 1)
  ELSE SubDays(Date(year, 1, 1), 1 - julian)

NoDate == Date(0, 0, 0)

\* the ValueError of time.strptime is let through
_date_from_string_month_unguarded(year, month) ==
  LET y == ParseYear(year)
      m == ParseMonthName(month)
  IN IF y.ok /\ m.ok THEN [exc |-> "", date |-> Date(y.val, m.val, 1)]
     ELSE [exc |-> "ValueError", date |-> NoDate]

\* dates.py:362-372 with the formats of MonthView: [exc, date]
_date_from_string_month(year, month) ==
  LET y == ParseYear(year)
      m == ParseMonthName(month)
  IN IF y.ok /\ m.ok THEN [exc |-> "", date |-> Date(y.val, m.val, 1)]
     ELSE [exc |-> "Http404", date |-> NoDate]

\* dates.py:362-372 with the formats of WeekView
_date_from_string_week(year, week) ==
  LET y == ParseYear(year)
      w == ParseWeekNumber(week)
  IN IF y.ok /\ w.ok
       THEN [exc |-> "", date |-> DateOfJulian(y.val, JulianOfSundayOfWeek(y.val, w.val))]
     ELSE [exc |-> "Http404", date |-> NoDate]


(***************************************************************************)
(* The queryset operations the date views use, over rows that carry the    *)
(* date field pubdate (a DateField): filter with the lookups __gte, __lt,  *)
(* __lte and __year, order_by, dates(), none(), indexing and slicing.      *)
(***************************************************************************)
DatedRow(pk, date) ==
  [pk |-> pk, slug |-> "", name |-> "", tname |-> "", meta |-> BookMeta, pubdate |-> date]

Lookup(op, value) == [op |-> op, value |-> value]

\* one lookup on the date field; a datetime compared with a DateField
\* counts by its date
DateMatches(date, lookup) ==
  CASE lookup.op = "gte" -> DateLE(lookup.value, date)
    [] lookup.op = "lt" -> DateLT(date, lookup.value)
    [] lookup.op = "lte" -> DateLE(date, lookup.value)
    [] lookup.op = "year" -> date.year = lookup.value

RECURSIVE SelectDated(_, _)
SelectDated(rows, lookup) ==
  IF rows = <<>> THEN <<>>
  ELSE LET rest == SelectDated(Tail(rows), lookup)
       IN IF DateMatches(Head(rows).pubdate, lookup) THEN <<Head(rows)>> \o rest ELSE rest

\* qs.filter(**lookups): every lookup must match
RECURSIVE QuerySet_filter_dates(_, _)
QuerySet_filter_dates(qs, lookups) ==
  IF lookups = <<>> THEN [qs EXCEPT !.shared = FALSE]
  ELSE QuerySet_filter_dates([qs EXCEPT !.rows = SelectDated(@, Head(lookups))],
                             Tail(lookups))

\* selection sort: the first of the rows with the earliest date comes first
RECURSIVE SortByDate(_)
SortByDate(rows) ==
  IF rows = <<>> THEN <<>>
  ELSE LET i == CHOOSE k \in 1..Len(rows) :
                  /\ \A j \in 1..Len(rows) : DateLE(rows[k].pubdate, rows[j].pubdate)
                  /\ \A j \in 1..(k - 1) : rows[j].pubdate # rows[k].pubdate
       IN <<rows[i]>> \o SortByDate(SubSeq(rows, 1, i - 1) \o SubSeq(rows, i + 1, Len(rows)))

Reverse(seq) == [i \in 1..Len(seq) |-> seq[Len(seq) + 1 - i]]

\* qs.order_by('pubdate') and qs.order_by('-pubdate')
QuerySet_order_by(qs, descending) ==
  [qs EXCEPT !.rows = IF descending THEN Reverse(SortByDate(@)) ELSE SortByDate(@),
             !.shared = FALSE]

Truncate(date, date_type) ==
  CASE date_type = "year" -> Date(date.year, 1, 1)
    [] date_type = "month" -> Date(date.year, date.month, 1)
    [] date_type = "day" -> date

RECURSIVE SortDates(_)
SortDates(S) ==
  IF S = {} THEN <<>>
  ELSE LET first == CHOOSE d \in S : \A e \in S : DateLE(d, e)
       IN <<first>> \o SortDates(S \ {first})

\* qs.dates('pubdate', date_type): the distinct truncated dates, ascending
QuerySet_dates(qs, date_type) ==
  SortDates({Truncate(qs.rows[i].pubdate, date_type) : i \in 1..Len(qs.rows)})

\* qs.none()
QuerySet_none(qs) == [qs EXCEPT !.rows = <<>>, !.shared = FALSE]

\* qs[:n]
QuerySet_slice(qs, n) == [qs EXCEPT !.rows = SubSeq(@, 1, Min(n, Len(@))), !.shared = FALSE]


(***************************************************************************)
(* DateView (dates.py).  today is the date of datetime.datetime.now() and  *)
(* of datetime.date.today() while the request is served.  A result is      *)
(* [exc, ...]; None where a collection is expected is NoItems.             *)
(***************************************************************************)
\* dates.py:30-40
DateView_get_queryset(self) ==
  IF IsNone(self.queryset) THEN [exc |-> "ImproperlyConfigured", qs |-> NoItems]
  ELSE [exc |-> "", qs |-> Clone(Val(self.queryset))]

\* rows of the future are never filtered out
DateView_get_dated_queryset_unfiltered(self, today, allow_future, lookups) ==
  LET got == DateView_get_queryset(self)
      qs == QuerySet_filter_dates(got.qs, lookups)
  IN IF got.exc # "" THEN got
     ELSE IF ~self.allow_empty /\ qs.rows = <<>> THEN [exc |-> "Http404", qs |-> NoItems]
     ELSE [exc |-> "", qs |-> qs]

\* dates.py:42-58
DateView_get_dated_queryset(self, today, allow_future, lookups) ==
  LET got == DateView_get_queryset(self)
      filtered == QuerySet_filter_dates(got.qs, lookups)
      qs == IF ~(allow_future \/ self.allow_future)
              THEN QuerySet_filter_dates(filtered, <<Lookup("lte", today)>>)
              ELSE filtered
  IN IF got.exc # "" THEN got
     ELSE IF ~self.allow_empty /\ qs.rows = <<>> THEN [exc |-> "Http404", qs |-> NoItems]
     ELSE [exc |-> "", qs |-> qs]

\* dates.py:60-72: [exc, date_list], the date list being <<list>>
DateView_get_date_list(self, queryset, date_type) ==
  LET date_list == Reverse(QuerySet_dates(queryset, date_type))
  IN IF date_list = <<>> /\ ~self.allow_empty
       THEN [exc |-> "Http404", date_list |-> None]
       ELSE [exc |-> "", date_list |-> Some(date_list)]

DatedRaised(exc) ==
  [exc |-> exc, date_list |-> None, items |-> NoItems, extra |-> NoContext, date |-> NoDate]

\* dates.py:122-135
ArchiveView_get_dated_items(self, today) ==
  LET got == DateView_get_dated_queryset(self, today, FALSE, <<>>)
      dl == DateView_get_date_list(self, got.qs, "year")
  IN IF got.exc # "" THEN DatedRaised(got.exc)
     ELSE IF dl.exc # "" THEN DatedRaised(dl.exc)
     ELSE [exc |-> "", date_list |-> dl.date_list,
           items |-> IF Val(dl.date_list) # <<>> /\ self.num_latest # 0
                       THEN QuerySet_slice(QuerySet_order_by(got.qs, TRUE), self.num_latest)
                       ELSE NoItems,
           extra |-> NoContext, date |-> NoDate]

\* dates.py:143-147: self.template_object_name or 'latest'
ArchiveView_get_template_object_name(self) ==
  IF ~IsNone(self.template_object_name) /\ Val(self.template_object_name) # <<>>
    THEN self.template_object_name
    ELSE Some(Key("latest"))

\* dates.py:162-180; int(year) is not guarded
YearView_get_dated_items(self, today, year) ==
  LET y == IntOfStr(year)
      got == DateView_get_dated_queryset(self, today, FALSE, <<Lookup("year", y.val)>>)
      dl == DateView_get_date_list(self, got.qs, "month")
  IN IF ~y.ok THEN DatedRaised("ValueError")
     ELSE IF got.exc # "" THEN DatedRaised(got.exc)
     ELSE IF dl.exc # "" THEN DatedRaised(dl.exc)
     ELSE [exc |-> "", date_list |-> dl.date_list,
           items |-> IF self.make_object_list THEN QuerySet_order_by(got.qs, TRUE)
                                              ELSE QuerySet_none(got.qs),
           extra |-> Key("year") :> y.val, date |-> NoDate]

\* what a call of next_month() or previous_month() gives: the candidate
\* before the future check, the value returned, and the queries it ran
Navigated(candidate, value, queries) ==
  [candidate |-> candidate, value |-> value, queries |-> queries]

NotNavigated == Navigated(None, None, 0)

\* the first row's month, or None when there is no row
MonthOfFirst(qs) ==
  IF qs.rows = <<>> THEN None ELSE Some(ReplaceDay1(qs.rows[1].pubdate))

\* the data store is asked also when allow_empty is true
MonthView_get_next_month_always_queries(self, today, date) ==
  LET next == ReplaceDay1(AddDays(_month_bounds(date).last_day, 1))
      qs == QuerySet_order_by(
              QuerySet_filter_dates(DateView_get_queryset(self).qs, <<Lookup("gte", next)>>),
              FALSE)
  IN Navigated(MonthOfFirst(qs), _check_date(MonthOfFirst(qs), self.allow_future, today), 1)

\* rows of the viewed month count as rows of a later month
MonthView_get_next_month_from_viewed(self, today, date) ==
  LET next == ReplaceDay1(AddDays(_month_bounds(date).last_day, 1))
  IN IF ~self.allow_empty
       THEN LET qs == QuerySet_order_by(
                        QuerySet_filter_dates(DateView_get_queryset(self).qs,
                                              <<Lookup("gte", _month_bounds(date).first_day)>>),
                        FALSE)
            IN Navigated(MonthOfFirst(qs),
                         _check_date(MonthOfFirst(qs), self.allow_future, today), 1)
       ELSE Navigated(Some(next), _check_date(Some(next), self.allow_future, today), 0)

\* dates.py:242-289
MonthView_get_next_month(self, today, date) ==
  LET next == ReplaceDay1(AddDays(_month_bounds(date).last_day, 1))
  IN IF ~self.allow_empty
       THEN LET qs == QuerySet_order_by(
                        QuerySet_filter_dates(DateView_get_queryset(self).qs,
                                              <<Lookup("gte", next)>>),
                        FALSE)
            IN Navigated(MonthOfFirst(qs),
                         _check_date(MonthOfFirst(qs), self.allow_future, today), 1)
       ELSE Navigated(Some(next), _check_date(Some(next), self.allow_future, today), 0)

\* dates.py:291-321
MonthView_get_previous_month(self, today, date) ==
  LET prev == ReplaceDay1(SubDays(_month_bounds(date).first_day, 1))
  IN IF ~self.allow_empty
       THEN LET qs == QuerySet_order_by(
                        QuerySet_filter_dates(DateView_get_queryset(self).qs,
                                              <<Lookup("lte", prev)>>),
                        TRUE)
            IN Navigated(MonthOfFirst(qs),
                         _check_date(MonthOfFirst(qs), self.allow_future, today), 1)
       ELSE Navigated(Some(prev), _check_date(Some(prev), self.allow_future, today), 0)

\* a callable of the context that has not been called
Closure(name, date) == [closure |-> name, date |-> date]

\* dates.py:202-240
MonthView_get_dated_items(self, today, year, month) ==
  LET parsed == _date_from_string_month(year, month)
      bounds == _month_bounds(parsed.date)
      got == DateView_get_dated_queryset(
               self, today, self.allow_future,
               <<Lookup("gte", bounds.first_day), Lookup("lt", bounds.last_day)>>)
      dl == DateView_get_date_list(self, got.qs, "day")
  IN IF parsed.exc # "" THEN DatedRaised(parsed.exc)
     ELSE IF got.exc # "" THEN DatedRaised(got.exc)
     ELSE IF dl.exc # "" THEN DatedRaised(dl.exc)
     ELSE [exc |-> "", date_list |-> dl.date_list, items |-> got.qs,
           extra |-> Key("month") :> parsed.date
                     @@ Key("next_month") :> Closure("get_next_month", parsed.date)
                     @@ Key("previous_month") :> Closure("get_previous_month", parsed.date),
           date |-> parsed.date]

\* dates.py:342-360
WeekView_get_dated_items(self, today, year, week) ==
  LET parsed == _date_from_string_week(year, week)
      first_day == parsed.date
      last_day == AddDays(parsed.date, 7)
      got == DateView_get_dated_queryset(
               self, today, self.allow_future,
               <<Lookup("gte", first_day), Lookup("lt", last_day)>>)
  IN IF parsed.exc # "" THEN DatedRaised(parsed.exc)
     ELSE IF got.exc # "" THEN DatedRaised(got.exc)
     ELSE [exc |-> "", date_list |-> None, items |-> got.qs,
           extra |-> Key("week") :> parsed.date, date |-> parsed.date]

\* dates.py:87-96: the date list joins the extra context, and ListView's
\* context is built without paginator and page
DateView_get_context(self, template_obj_name, items, date_list, context) ==
  ListView_get_context(self, template_obj_name, items, None, None,
                       Update(context, Key("date_list") :> date_list))


(***************************************************************************)
(* The views that can be constructed and the requests they can be sent.    *)
(***************************************************************************)
ListRows(n) == [i \in 1..n |-> Row(BookMeta, i, "a", "a", "")]
\* a plain list holds dicts; pk only tells them apart here
PlainRows(n) == [i \in 1..n |-> [PlainObject("") EXCEPT !.pk = n + 1 - i]]

ListSources ==
  {[queryset |-> None, items |-> None]}
  \cup {[queryset |-> Some(QuerySet(BookMeta, ListRows(n))), items |-> None] : n \in 0..MaxLen}
  \cup {[queryset |-> None, items |-> Some(PlainList(PlainRows(n)))] : n \in 0..MaxLen}
  \cup {[queryset |-> Some(QuerySet(BookMeta, ListRows(n))),
         items |-> Some(PlainList(PlainRows(1 - n)))] : n \in 0..1}

\* the views that set neither template_object_name nor legacy_context
PlainListViews ==
  {[cls |-> "ListView", queryset |-> src.queryset, items |-> src.items,
    paginate_by |-> pb, allow_empty |-> ae, template_name |-> tn,
    template_object_name |-> None, legacy_context |-> None] :
      src \in ListSources,
      pb \in {None} \cup {Some(n) : n \in 0..MaxPer},
      ae \in BOOLEAN,
      tn \in {TplNone, TplStr(Name("list.html")), TplList(<<Name("a.html")>>)}}

\* template_object_name: unset, a name, or the empty str
ListObjectNames == {None, Some(<<"i", "t">>), Some(<<>>)}

\* the views that set template_object_name or legacy_context (an attribute
\* of a subclass), over an empty and a full collection
NamedListViews ==
  {[cls |-> "ListView", queryset |-> src.queryset, items |-> src.items,
    paginate_by |-> pb, allow_empty |-> TRUE,
    template_name |-> TplStr(Name("list.html")),
    template_object_name |-> ton, legacy_context |-> lc] :
      src \in {[queryset |-> Some(QuerySet(BookMeta, ListRows(n))), items |-> None] :
                 n \in {0, MaxLen}}
               \cup {[queryset |-> None, items |-> Some(PlainList(PlainRows(MaxLen)))]},
      pb \in {None, Some(MaxPer)},
      ton \in ListObjectNames,
      lc \in {None, Some(TRUE), Some(FALSE)}}

ListViews == PlainListViews \cup NamedListViews

\* the token comes in the URL, or in the query string, or in neither
ListRequests ==
  {[page |-> Some(t), GET_page |-> None] : t \in Tokens}
  \cup {[page |-> None, GET_page |-> g] :
          g \in {None, Some(<<>>), Some(<<"2">>), Some(<<"x">>), Some(LAST)}}
  \cup {[page |-> Some(<<>>), GET_page |-> Some(<<"2">>)],
        [page |-> Some(<<"1">>), GET_page |-> Some(<<"2">>)]}

Slugs == {"a", "b"}

DetailRows(meta, n, sl) ==
  [i \in 1..n |-> Row(meta, i, sl[i], IF i % 2 = 1 THEN "a" ELSE "b",
                      IF i = 1 THEN "t1.html" ELSE "")]

DetailQuerySets ==
  {None}
  \cup {Some(QuerySet(BookMeta, DetailRows(BookMeta, n, sl))) :
          n \in 0..MaxRows, sl \in [1..MaxRows -> Slugs]}
  \cup {Some(QuerySet(OddMeta, DetailRows(OddMeta, 1, sl))) : sl \in [1..1 -> Slugs]}

ObjectNames == {None, Some(<<"i", "t">>)}

AllDetailViews ==
  {[cls |-> "DetailView", queryset |-> qs, slug_field |-> sf,
    template_object_name |-> ton, template_name_field |-> tnf,
    template_name |-> tn, get_object |-> go] :
      qs \in DetailQuerySets, sf \in {Some("slug"), Some("name")}, ton \in ObjectNames,
      tnf \in {None, Some("tname")},
      tn \in {TplNone, TplStr(Name("d.html")),
              TplList(<<Name("a.html"), Name("b.html")>>)},
      go \in {None, Some(PlainObject("")), Some(PlainObject("p.html"))}}

\* get_object is overridden only by views that configure no queryset
DetailViews ==
  {v \in AllDetailViews : IsNone(v.get_object) \/ IsNone(v.queryset)}

PkgDetailViews ==
  {[cls |-> "PkgDetailView", queryset |-> qs, slug_field |-> sf,
    template_object_name |-> ton, template_name_field |-> tnf,
    template_names |-> tns, template_name |-> tn] :
      qs \in DetailQuerySets, sf \in {None, Some("name")}, ton \in {None},
      tnf \in {None, Some("tname")},
      tns \in {None, Some(<<Name("a.html"), Name("b.html")>>)},
      tn \in {TplNone, TplStr(Name("d.html"))}}

Pks == {None} \cup {Some(n) : n \in 1..(MaxRows + 1)}

DetailRequests ==
  {[pk |-> pk, slug |-> slug, object_id |-> oid] :
     pk \in Pks, slug \in {None} \cup {Some(x) : x \in Slugs},
     oid \in {None, Some(MaxRows)}}


(***************************************************************************)
(* The date views that can be constructed.  A keyword argument that is not *)
(* given is None; _load_config_values gives an option its keyword's value  *)
(* or else its default.  The instance keeps the keywords it was given.     *)
(***************************************************************************)
LoadConfigValue(value, default) == IF IsNone(value) THEN default ELSE Val(value)

\* ArchiveView does not touch allow_empty: ListView's default stands
ArchiveView_init(kwargs) ==
  [cls |-> "ArchiveView", kwargs |-> kwargs,
   num_latest |-> LoadConfigValue(kwargs.num_latest, 15),
   allow_future |-> LoadConfigValue(kwargs.allow_future, FALSE),
   paginate_by |-> None,
   allow_empty |-> LoadConfigValue(kwargs.allow_empty, TRUE),
   template_object_name |-> None,
   queryset |-> kwargs.queryset, items |-> None,
   template_name |-> kwargs.template_name,
   legacy_context |-> Some(FALSE)]

\* dates.py:156-160: allow_empty is popped with the default False and handed
\* to ListView.__init__ as a keyword
YearView_init(kwargs) ==
  [cls |-> "YearView", kwargs |-> kwargs,
   make_object_list |-> LoadConfigValue(kwargs.make_object_list, FALSE),
   allow_future |-> LoadConfigValue(kwargs.allow_future, FALSE),
   paginate_by |-> None,
   allow_empty |-> LoadConfigValue(Some(LoadConfigValue(kwargs.allow_empty, FALSE)), TRUE),
   template_object_name |-> None,
   queryset |-> kwargs.queryset, items |-> None,
   template_name |-> kwargs.template_name,
   legacy_context |-> Some(FALSE)]

MonthView_init(kwargs) ==
  [cls |-> "MonthView", kwargs |-> kwargs,
   allow_future |-> LoadConfigValue(kwargs.allow_future, FALSE),
   paginate_by |-> None,
   allow_empty |-> LoadConfigValue(Some(LoadConfigValue(kwargs.allow_empty, FALSE)), TRUE),
   template_object_name |-> None,
   queryset |-> kwargs.queryset, items |-> None,
   template_name |-> kwargs.template_name,
   legacy_context |-> Some(FALSE)]

WeekView_init(kwargs) ==
  [cls |-> "WeekView", kwargs |-> kwargs,
   allow_future |-> LoadConfigValue(kwargs.allow_future, FALSE),
   paginate_by |-> None,
   allow_empty |-> LoadConfigValue(Some(LoadConfigValue(kwargs.allow_empty, FALSE)), TRUE),
   template_object_name |-> None,
   queryset |-> kwargs.queryset, items |-> None,
   template_name |-> kwargs.template_name,
   legacy_context |-> Some(FALSE)]

\* _template_name_suffix of the class
TemplateNameSuffix(cls) ==
  CASE cls = "ArchiveView" -> "archive"
    [] cls = "YearView" -> "archive_year"
    [] cls = "MonthView" -> "archive_month"
    [] cls = "WeekView" -> "archive_year"

\* the days rows are dated on
DatedDays ==
  {Date(2023, 1, 15), Date(2023, 2, 1), Date(2023, 12, 31), Date(2024, 1, 1),
   Date(2024, 2, 20)}

\* a table holding one row per day of S, the latest stored first
DatedRows(S) ==
  LET days == Reverse(SortDates(S))
  IN [i \in 1..Len(days) |-> DatedRow(i, days[i])]

DatedQuerySets ==
  {None} \cup {Some(QuerySet(BookMeta, DatedRows(S))) :
                 S \in {T \in SUBSET DatedDays : Cardinality(T) <= MaxDated}}

\* the keywords every date view takes, allow_empty and allow_future given or
\* not; a template_name list only with the default allow_future and at most
\* one row
DateKwargs ==
  {[queryset |-> qs, allow_empty |-> fl[1], allow_future |-> fl[2],
    template_name |-> tn] :
      qs \in DatedQuerySets,
      fl \in {<<None, None>>, <<Some(TRUE), None>>, <<None, Some(TRUE)>>,
              <<Some(TRUE), Some(TRUE)>>, <<Some(FALSE), Some(FALSE)>>},
      tn \in {TplNone, TplStr(Name("d.html"))}}
  \cup
  {[queryset |-> Some(QuerySet(BookMeta, DatedRows(S))),
    allow_empty |-> ae, allow_future |-> None,
    template_name |-> TplList(<<Name("a.html")>>)] :
      S \in {{}, {Date(2023, 2, 1)}}, ae \in {None, Some(TRUE)}}

ArchiveViews ==
  {ArchiveView_init([queryset |-> kw.queryset, allow_empty |-> kw.allow_empty,
                     allow_future |-> kw.allow_future,
                     template_name |-> kw.template_name, num_latest |-> nl]) :
     kw \in DateKwargs, nl \in {None, Some(1)}}

YearViews ==
  {YearView_init([queryset |-> kw.queryset, allow_empty |-> kw.allow_empty,
                  allow_future |-> kw.allow_future,
                  template_name |-> kw.template_name, make_object_list |-> mol]) :
     kw \in DateKwargs, mol \in {None, Some(TRUE)}}

MonthViews == {MonthView_init(kw) : kw \in DateKwargs}

WeekViews == {WeekView_init(kw) : kw \in DateKwargs}

DateViews == ArchiveViews \cup YearViews \cup MonthViews \cup WeekViews

\* the days a request may be served on
Todays == {Date(2023, 2, 1), Date(2023, 12, 31), Date(2024, 2, 15)}

Y2023 == <<"2", "0", "2", "3">>
Y2024 == <<"2", "0", "2", "4">>

ArchiveRequests == {[today |-> t] : t \in Todays}

YearRequests ==
  {[today |-> t, year |-> y] :
     t \in Todays, y \in {Y2023, Y2024, <<" ", "2", "0", "2", "3">>, <<"x">>}}

MonthRequests ==
  {[today |-> t, year |-> ym[1], month |-> ym[2]] :
     t \in Todays,
     ym \in {<<Y2023, <<"j", "a", "n">>>>, <<Y2023, <<"f", "e", "b">>>>,
             <<Y2023, <<"m", "a", "r">>>>, <<Y2023, <<"D", "e", "c">>>>,
             <<Y2024, <<"j", "a", "n">>>>, <<Y2023, <<"1">>>>,
             <<<<"x">>, <<"j", "a", "n">>>>, <<<<"2", "3">>, <<"f", "e", "b">>>>}}

WeekRequests ==
  {[today |-> t, year |-> yw[1], week |-> yw[2]] :
     t \in Todays,
     yw \in {<<Y2023, <<"0">>>>, <<Y2023, <<"2">>>>, <<Y2023, <<"0", "3">>>>,
             <<Y2024, <<"0">>>>, <<Y2024, <<"1">>>>, <<Y2023, <<"x">>>>,
             <<<<"x">>, <<"1">>>>}}


(***************************************************************************)
(* The state machine: one instance, constructed once, serving requests.    *)
(***************************************************************************)
NoResp == [cls |-> "none"]

\* the threads that serve requests with the one instance
Threads == {"t1", "t2"}

\* a thread that is not rendering a month
NotRendering == [exc |-> "idle"]

Init ==
  /\ view \in ListViews \cup DetailViews \cup PkgDetailViews \cup DateViews
  /\ conf = view
  /\ resp = NoResp
  /\ threads = [t \in Threads |-> NotRendering]

\* a list that requests keep appending to is followed up to MaxNames names
Bounded ==
  view.cls = "PkgDetailView" \/ Len(view.template_name.names) <= MaxNames

\* GenericView.load_template: the loader's first choice among the names
\* (every candidate is taken to exist)
GenericView_load_template(names) == names[1]

\* the template names are resolved before the items are looked up
ListView_call_template_first(request) ==
  /\ view.cls = "ListView"
  /\ Bounded
  /\ LET got == ListView_get_items(view, request)
         tn == ListView_get_template_names(view, got.items, "list")
         base == [cls |-> "ListView", request |-> request, exc |-> got.exc,
                  stage |-> "get_items", paginator |-> got.paginator,
                  page |-> got.page, items |-> got.items, names |-> tn.names,
                  template |-> <<>>, context |-> NoContext]
     IN IF tn.names = <<>>
          THEN /\ resp' = [base EXCEPT !.exc = "ImproperlyConfigured",
                                       !.stage = "get_template"]
               /\ view' = tn.self
        ELSE IF got.exc # ""
          THEN resp' = base /\ view' = tn.self
        ELSE /\ resp' = [base EXCEPT
                 !.stage = "response",
                 !.template = GenericView_load_template(tn.names),
                 !.context = ListView_get_context(
                               tn.self, ListView_get_template_object_name(tn.self, got.items),
                               got.items, got.paginator, got.page, NoContext)]
             /\ view' = tn.self
  /\ UNCHANGED <<conf, threads>>

\* ListView.__call__
ListView_call(request) ==
  /\ view.cls = "ListView"
  /\ Bounded
  /\ LET got == ListView_get_items(view, request)
         tn == ListView_get_template_names(view, got.items, "list")
         base == [cls |-> "ListView", request |-> request, exc |-> got.exc,
                  stage |-> "get_items", paginator |-> got.paginator,
                  page |-> got.page, items |-> got.items, names |-> <<>>,
                  template |-> <<>>, context |-> NoContext]
     IN IF got.exc # ""
          THEN resp' = base /\ UNCHANGED view
        ELSE IF tn.names = <<>>
          THEN /\ resp' = [base EXCEPT !.exc = "ImproperlyConfigured",
                                       !.stage = "get_template"]
               /\ view' = tn.self
        ELSE /\ resp' = [base EXCEPT
                 !.stage = "response", !.names = tn.names,
                 !.template = GenericView_load_template(tn.names),
                 !.context = ListView_get_context(
                               tn.self, ListView_get_template_object_name(tn.self, got.items),
                               got.items, got.paginator, got.page, NoContext)]
             /\ view' = tn.self
  /\ UNCHANGED <<conf, threads>>

\* DetailView.__call__ of detail.py: get_object, then GenericView.__call__
\* (get_template, get_context, the response)
DetailView_call(kwargs) ==
  /\ view.cls = "DetailView"
  /\ Bounded
  /\ LET got == View_get_object(view, kwargs)
         tn == DetailView_get_template_names(view, got.obj)
         base == [cls |-> "DetailView", request |-> kwargs, exc |-> got.exc,
                  stage |-> "get_object", obj |-> got.obj, lookup |-> got.lookup,
                  names |-> <<>>, template |-> <<>>, context |-> <<>>]
     IN IF got.exc # ""
          THEN resp' = base /\ UNCHANGED view
        ELSE IF tn.names = <<>>
          THEN /\ resp' = [base EXCEPT !.exc = "ImproperlyConfigured",
                                       !.stage = "get_template"]
               /\ view' = tn.self
        ELSE /\ resp' = [base EXCEPT !.stage = "response", !.names = tn.names,
                                     !.template = GenericView_load_template(tn.names),
                                     !.context = DetailView_get_context(view, got.obj)]
             /\ view' = tn.self
  /\ UNCHANGED <<conf, threads>>

\* DetailView.__call__ of __init__.py
PkgDetailView_call(kwargs) ==
  /\ view.cls = "PkgDetailView"
  /\ LET pk == Or(kwargs.pk, kwargs.object_id)
         got == PkgDetailView_get_object(view, pk, kwargs.slug)
         names == PkgDetailView_get_template_names(view, got.obj)
         base == [cls |-> "PkgDetailView", request |-> kwargs, exc |-> got.exc,
                  stage |-> "get_object", obj |-> got.obj, lookup |-> got.lookup,
                  names |-> <<>>, template |-> <<>>, context |-> <<>>]
     IN IF got.exc # ""
          THEN resp' = base
          ELSE resp' = [base EXCEPT !.stage = "response", !.names = names,
                                    !.template = GenericView_load_template(names),
                                    !.context = PkgDetailView_get_context(view, got.obj)]
  /\ UNCHANGED <<view, conf, threads>>

\* DateView.__call__ after get_dated_items returned got: get_template,
\* get_context and the response; a month view's template calls next_month()
\* and previous_month()
DateView_call(request, got) ==
  /\ Bounded
  /\ LET tn == ListView_get_template_names(view, got.items, TemplateNameSuffix(view.cls))
         name == IF view.cls = "ArchiveView"
                   THEN ArchiveView_get_template_object_name(tn.self)
                   ELSE ListView_get_template_object_name(tn.self, got.items)
         base == [cls |-> view.cls, request |-> request, exc |-> got.exc,
                  stage |-> "get_dated_items", date_list |-> got.date_list,
                  items |-> got.items, date |-> got.date, names |-> <<>>,
                  template |-> <<>>, context |-> NoContext,
                  next_month |-> NotNavigated, previous_month |-> NotNavigated]
     IN IF got.exc # ""
          THEN resp' = base /\ UNCHANGED view
        ELSE IF tn.names = <<>>
          THEN /\ resp' = [base EXCEPT !.exc = "ImproperlyConfigured",
                                       !.stage = "get_template"]
               /\ view' = tn.self
        ELSE /\ resp' = [base EXCEPT
                 !.stage = "response", !.names = tn.names,
                 !.template = GenericView_load_template(tn.names),
                 !.context = DateView_get_context(tn.self, name, got.items,
                                                  got.date_list, got.extra),
                 !.next_month =
                    IF view.cls = "MonthView"
                      THEN MonthView_get_next_month(tn.self, request.today, got.date)
                      ELSE NotNavigated,
                 !.previous_month =
                    IF view.cls = "MonthView"
                      THEN MonthView_get_previous_month(tn.self, request.today, got.date)
                      ELSE NotNavigated]
             /\ view' = tn.self
  /\ UNCHANGED <<conf, threads>>

ArchiveView_call(request) ==
  /\ view.cls = "ArchiveView"
  /\ DateView_call(request, ArchiveView_get_dated_items(view, request.today))

YearView_call(request) ==
  /\ view.cls = "YearView"
  /\ DateView_call(request, YearView_get_dated_items(view, request.today, request.year))

MonthView_call(request) ==
  /\ view.cls = "MonthView"
  /\ DateView_call(request, MonthView_get_dated_items(view, request.today, request.year,
                                                      request.month))

WeekView_call(request) ==
  /\ view.cls = "WeekView"
  /\ DateView_call(request, WeekView_get_dated_items(view, request.today, request.year,
                                                     request.week))

ListRequest == \E request \in ListRequests : ListView_call(request)
DetailRequest == \E kwargs \in DetailRequests : DetailView_call(kwargs)
PkgDetailRequest == \E kwargs \in DetailRequests : PkgDetailView_call(kwargs)

DateRequest ==
  \/ \E request \in ArchiveRequests : ArchiveView_call(request)
  \/ \E request \in YearRequests : YearView_call(request)
  \/ \E request \in MonthRequests : MonthView_call(request)
  \/ \E request \in WeekRequests : WeekView_call(request)

Next == ListRequest \/ DetailRequest \/ PkgDetailRequest \/ DateRequest

Spec == Init /\ [][Next]_vars

\* the same machine with the instance taken from one family of views
ListInit ==
  /\ view \in ListViews /\ conf = view /\ resp = NoResp
  /\ threads = [t \in Threads |-> NotRendering]
ListNext == ListRequest
ListSpec == ListInit /\ [][ListNext]_vars

DetailInit ==
  /\ view \in DetailViews \cup PkgDetailViews /\ conf = view /\ resp = NoResp
  /\ threads = [t \in Threads |-> NotRendering]
DetailNext == DetailRequest \/ PkgDetailRequest
DetailSpec == DetailInit /\ [][DetailNext]_vars

DateInit ==
  /\ view \in DateViews /\ conf = view /\ resp = NoResp
  /\ threads = [t \in Threads |-> NotRendering]
DateNext == DateRequest
DateSpec == DateInit /\ [][DateNext]_vars


(***************************************************************************)
(* A month request in steps: __call__ up to the rendering of the template, *)
(* then the calls the template makes of next_month and previous_month.     *)
(* Every thread serves its own request with the one instance; calls and    *)
(* runs record what the callables returned and how often the computation   *)
(* behind them ran.                                                        *)
(***************************************************************************)
\* the computation runs at every call
get_next_month_unmemoized(self, call) ==
  LET got == MonthView_get_next_month(self, call.request.today, call.date)
  IN [memo |-> [call.memo EXCEPT !.next = <<got.value>>], value |-> got.value, ran |-> 1]

\* dates.py:226-229: [memo, value, ran]
get_next_month(self, call) ==
  IF call.memo.next = <<>>
    THEN LET got == MonthView_get_next_month(self, call.request.today, call.date)
         IN [memo |-> [call.memo EXCEPT !.next = <<got.value>>],
             value |-> got.value, ran |-> 1]
    ELSE [memo |-> call.memo, value |-> call.memo.next[1], ran |-> 0]

\* dates.py:231-234
get_previous_month(self, call) ==
  IF call.memo.prev = <<>>
    THEN LET got == MonthView_get_previous_month(self, call.request.today, call.date)
         IN [memo |-> [call.memo EXCEPT !.prev = <<got.value>>],
             value |-> got.value, ran |-> 1]
    ELSE [memo |-> call.memo, value |-> call.memo.prev[1], ran |-> 0]

\* DateView.__call__ of a month view on thread t, up to the rendering; the
\* memo of dates.py:225 starts empty
MonthView_render(t, request) ==
  /\ view.cls = "MonthView"
  /\ Bounded
  /\ LET got == MonthView_get_dated_items(view, request.today, request.year,
                                          request.month)
         tn == ListView_get_template_names(view, got.items, TemplateNameSuffix(view.cls))
     IN IF got.exc # ""
          THEN threads' = [threads EXCEPT ![t] = [exc |-> got.exc]] /\ UNCHANGED view
        ELSE IF tn.names = <<>>
          THEN /\ threads' = [threads EXCEPT ![t] = [exc |-> "ImproperlyConfigured"]]
               /\ view' = tn.self
        ELSE /\ threads' = [threads EXCEPT ![t] =
                              [exc |-> "", request |-> request, date |-> got.date,
                               memo |-> [next |-> <<>>, prev |-> <<>>],
                               calls |-> [next |-> <<>>, prev |-> <<>>],
                               runs |-> [next |-> 0, prev |-> 0]]]
             /\ view' = tn.self
  /\ UNCHANGED <<conf, resp>>

\* the template of thread t calls next_month()
Template_next_month(t) ==
  /\ threads[t].exc = ""
  /\ Len(threads[t].calls.next) < MaxCalls
  /\ LET r == get_next_month(view, threads[t])
     IN threads' = [threads EXCEPT ![t].memo = r.memo,
                                   ![t].calls.next = Append(@, r.value),
                                   ![t].runs.next = @ + r.ran]
  /\ UNCHANGED <<view, conf, resp>>

\* the template of thread t calls previous_month()
Template_previous_month(t) ==
  /\ threads[t].exc = ""
  /\ Len(threads[t].calls.prev) < MaxCalls
  /\ LET r == get_previous_month(view, threads[t])
     IN threads' = [threads EXCEPT ![t].memo = r.memo,
                                   ![t].calls.prev = Append(@, r.value),
                                   ![t].runs.prev = @ + r.ran]
  /\ UNCHANGED <<view, conf, resp>>

\* month views over rows dated 15 January and 20 February 2023, with the
\* convention's template
MemoViews ==
  {MonthView_init([queryset |-> Some(QuerySet(BookMeta, DatedRows({Date(2023, 1, 15),
                                                                   Date(2023, 2, 20)}))),
                   allow_empty |-> fl[1], allow_future |-> fl[2],
                   template_name |-> TplNone]) :
     fl \in {<<None, None>>, <<Some(TRUE), None>>, <<None, Some(TRUE)>>,
             <<Some(TRUE), Some(TRUE)>>}}

MemoRequests ==
  {[today |-> t, year |-> Y2023, month |-> m] :
     t \in {Date(2023, 2, 1), Date(2023, 12, 31)},
     m \in {<<"j", "a", "n">>, <<"f", "e", "b">>, <<"1">>}}

MemoInit ==
  /\ view \in MemoViews /\ conf = view /\ resp = NoResp
  /\ threads = [t \in Threads |-> NotRendering]

MemoNext ==
  \E t \in Threads :
    \/ \E request \in MemoRequests : MonthView_render(t, request)
    \/ Template_next_month(t)
    \/ Template_previous_month(t)

MemoSpec == MemoInit /\ [][MemoNext]_vars


(***************************************************************************)
(* Properties of ListView.                                                 *)
(***************************************************************************)
ListServed == resp.cls = "ListView"

\* a collection is configured and the page size is true
Paginating ==
  /\ ListServed
  /\ ~IsNone(conf.queryset) \/ ~IsNone(conf.items)
  /\ Truthy(conf.paginate_by)

NotPaginating ==
  /\ ListServed
  /\ ~IsNone(conf.queryset) \/ ~IsNone(conf.items)
  /\ ~Truthy(conf.paginate_by)

\* the rows of the configured collection, its length and the page size
SourceRows == IF ~IsNone(conf.queryset) THEN Val(conf.queryset).rows ELSE Val(conf.items).rows
L == Len(SourceRows)
P == Val(conf.paginate_by)

\* the token of the request and the number it stands for
Token == EffectivePage(resp.request)
Asked == IntOfPage(Token)
AskedLast == ~Token.isint /\ Token.s = LAST

\* paginate_items returned (the request may still fail at a later step)
ItemsReturned == resp.stage # "get_items"
ItemsNotFound == resp.stage = "get_items" /\ resp.exc = "Http404"

\* the number of pages the returned paginator reports
PageCount == Paginator_num_pages(Val(resp.paginator))

\* the items at 0-based positions [(k-1)P, min(kP, L))
PageRows(k) == SubSeq(SourceRows, (k - 1) * P + 1, Min(k * P, L))

ReturnsPage(k) ==
  /\ ItemsReturned
  /\ Val(resp.page).number = k
  /\ resp.items.rows = PageRows(k)
  /\ Val(resp.page).object_list.rows = PageRows(k)

\* C1 as stated: for every page size P > 0 and every length L there are
\* exactly ceil(L/P) pages, and page k with 1 <= k <= ceil(L/P) holds exactly
\* the items at positions [(k-1)P, min(kP, L)) in their order.
C1_CeilPages ==
  Paginating =>
    /\ ItemsReturned => PageCount = CeilDiv(L, P)
    /\ Asked.ok /\ 1 <= Asked.val /\ Asked.val <= CeilDiv(L, P) => ReturnsPage(Asked.val)

\* C1 amended: a collection that is not empty has exactly ceil(L/P) pages and
\* page k with 1 <= k <= ceil(L/P) holds exactly the items at positions
\* [(k-1)P, min(kP, L)) in their order; an empty collection has one page, the
\* empty page 1, when allow_empty is true (and is not paginated at all, the
\* request failing with Http404, when allow_empty is false).
C1_PagesAndSlices ==
  Paginating =>
    /\ ItemsReturned /\ L > 0 => PageCount = CeilDiv(L, P)
    /\ ItemsReturned /\ L = 0 => PageCount = 1 /\ conf.allow_empty
    /\ L = 0 /\ ~conf.allow_empty => ItemsNotFound
    /\ Asked.ok /\ 1 <= Asked.val /\ Asked.val <= CeilDiv(L, P) => ReturnsPage(Asked.val)
    /\ ItemsReturned => ReturnsPage(Val(resp.page).number)

\* a short last page was asked for and returned
C1_Witness ==
  /\ Paginating /\ ItemsReturned
  /\ L = 3 /\ P = 2 /\ Asked.ok /\ Asked.val = 2
  /\ Len(resp.items.rows) = 1

\* C2: with pagination on, a page number greater than the page count, and a
\* token that is neither 'last' nor an integer, fail with Http404 and no page
\* is returned.
C2_BadPageNotFound ==
  Paginating =>
    LET count == Paginator_num_pages(
                   Paginator(PlainList(SourceRows), P, conf.allow_empty))
    IN (\/ Asked.ok /\ Asked.val > count
        \/ ~Asked.ok /\ ~AskedLast)
         => ItemsNotFound /\ IsNone(resp.page) /\ resp.items = NoItems

\* a number past the last page of a collection that has pages was refused
C2_Witness ==
  /\ Paginating /\ L = 3 /\ P = 2
  /\ Asked.ok /\ Asked.val = 3
  /\ ItemsNotFound

\* C3 as stated: with pagination on, 'last' always succeeds and returns the
\* final page, for every length including 0 and for both values of allow_empty.
C3_LastAlways ==
  Paginating /\ AskedLast =>
    ItemsReturned /\ Val(resp.page).number = PageCount

\* C3 amended: with pagination on, 'last' returns the final page (number =
\* page count, holding the tail of the collection) whenever the collection is
\* not empty or allow_empty is true; for an empty collection with allow_empty
\* false it fails with Http404.
C3_LastUnlessEmptyRefused ==
  Paginating /\ AskedLast =>
    IF L > 0 \/ conf.allow_empty
      THEN /\ ItemsReturned
           /\ Val(resp.page).number = PageCount
           /\ Val(resp.page).number = Max(1, CeilDiv(L, P))
           /\ resp.items.rows = PageRows(Max(1, CeilDiv(L, P)))
      ELSE ItemsNotFound

\* 'last' gave the second page of three items paginated by two
C3_Witness ==
  /\ Paginating /\ AskedLast /\ L = 3 /\ P = 2
  /\ ItemsReturned /\ Val(resp.page).number = 2

\* the unpaginated result: the whole collection, no paginator, no page
ReturnsAll ==
  /\ ItemsReturned
  /\ resp.items.rows = SourceRows
  /\ IsNone(resp.paginator) /\ IsNone(resp.page)

\* C4 as stated: over zero items the view fails with Http404 when allow_empty
\* is false and returns an empty list when it is true, with pagination off
\* (whole collection, no paginator, no page) and with pagination on.
C4_EmptyList ==
  /\ NotPaginating /\ L = 0 =>
       IF conf.allow_empty THEN ReturnsAll ELSE ItemsNotFound
  /\ Paginating /\ L = 0 =>
       IF conf.allow_empty THEN ItemsReturned /\ resp.items.rows = <<>>
       ELSE ItemsNotFound

\* the page tokens that name the only page of an empty collection
FirstPageAsked == AskedLast \/ (Asked.ok /\ Asked.val = 1)

\* C4 amended: as stated, except that with pagination on and allow_empty
\* true the empty list is returned for the first page only (no token, a
\* token equal to 1, or 'last'); any other token fails with Http404.
C4_EmptyListFirstPage ==
  /\ NotPaginating /\ L = 0 =>
       IF conf.allow_empty THEN ReturnsAll ELSE ItemsNotFound
  /\ NotPaginating /\ L > 0 => ReturnsAll
  /\ Paginating /\ L = 0 =>
       IF conf.allow_empty /\ FirstPageAsked
         THEN ItemsReturned /\ resp.items.rows = <<>> /\ Val(resp.page).number = 1
         ELSE ItemsNotFound

\* an empty list was refused without pagination
C4_Witness ==
  /\ NotPaginating /\ L = 0 /\ ~conf.allow_empty /\ ItemsNotFound


(***************************************************************************)
(* Properties of the detail views.                                         *)
(***************************************************************************)
\* a request served by get_object of either DetailView (not by an override)
\* over a configured queryset
DetailServed ==
  /\ resp.cls \in {"DetailView", "PkgDetailView"}
  /\ resp.cls = "DetailView" => IsNone(conf.get_object)

LookedUp == DetailServed /\ ~IsNone(conf.queryset)

Kw == resp.request

NoIdentifier == IsNone(Kw.pk) /\ IsNone(Kw.slug) /\ IsNone(Kw.object_id)

\* the configured slug field, 'slug' by default
SlugField == IF IsNone(conf.slug_field) THEN "slug" ELSE Val(conf.slug_field)

QsRows == Val(conf.queryset).rows

\* the positions of the rows a filter on one field keeps
Matching(field, value) ==
  {i \in 1..Len(QsRows) :
     IF field = "pk" THEN QsRows[i].pk = value ELSE Field(QsRows[i], field) = value}

\* the outcome of get() over the rows at these positions
OneRowOrFail(matches) ==
  IF Cardinality(matches) = 1
    THEN resp.exc \in {"", "ImproperlyConfigured"} /\ resp.stage # "get_object"
         /\ resp.obj = QsRows[CHOOSE i \in matches : TRUE]
  ELSE IF matches = {}
    THEN resp.exc = "Http404" /\ resp.stage = "get_object"
  ELSE resp.exc = "MultipleObjectsReturned" /\ resp.stage = "get_object"

\* C5: the lookup is chosen by the first identifier present among pk, slug,
\* object_id: pk filters on the primary key only, else slug filters on the
\* configured slug field, else object_id filters on the primary key.
C5_FirstIdentifierWins ==
  LookedUp /\ ~NoIdentifier =>
    IF ~IsNone(Kw.pk) THEN OneRowOrFail(Matching("pk", Val(Kw.pk)))
    ELSE IF ~IsNone(Kw.slug) THEN OneRowOrFail(Matching(SlugField, Val(Kw.slug)))
    ELSE OneRowOrFail(Matching("pk", Val(Kw.object_id)))

\* the same for the DetailView of detail.py alone
DetailPy_FirstIdentifierWins == resp.cls = "DetailView" => C5_FirstIdentifierWins

\* C6 as stated: a detail view called with none of pk, slug, object_id fails
\* with AttributeError, never with Http404, and runs no lookup.
C6_NoIdentifierIsMisuse ==
  DetailServed /\ NoIdentifier =>
    resp.exc = "AttributeError" /\ resp.lookup.by = ""

\* C6 amended: a detail view over a configured queryset called with none of
\* pk, slug, object_id fails with AttributeError; one with no queryset
\* configured fails with ImproperlyConfigured before the identifiers are
\* looked at; in both cases it never fails with Http404 and runs no lookup.
C6_NoIdentifierFails ==
  DetailServed /\ NoIdentifier =>
    /\ resp.stage = "get_object"
    /\ resp.exc = (IF IsNone(conf.queryset) THEN "ImproperlyConfigured"
                                             ELSE "AttributeError")
    /\ resp.exc # "Http404"
    /\ resp.lookup.by = ""
    /\ resp.obj = NoObject

\* a view of detail.py over two rows was called without an identifier
C6_Witness ==
  /\ resp.cls = "DetailView" /\ DetailServed /\ NoIdentifier
  /\ ~IsNone(conf.queryset) /\ Len(QsRows) = 2
  /\ resp.exc = "AttributeError"

\* C7: a lookup by pk or slug returns the row when exactly one row matches,
\* fails with Http404 when none matches, and fails with the lookup's own
\* error (never Http404, never one of the rows) when several match.
C7_OneRowOr404 ==
  LookedUp /\ resp.lookup.by # "" =>
    OneRowOrFail(Matching(resp.lookup.field, resp.lookup.value))

\* two rows share the slug that was asked for
C7_Witness ==
  /\ resp.cls = "DetailView" /\ LookedUp /\ resp.lookup.by = "slug"
  /\ Cardinality(Matching(resp.lookup.field, resp.lookup.value)) = 2
  /\ resp.exc = "MultipleObjectsReturned"

\* the i-th smallest element of a set of numbers
Nth(S, i) == CHOOSE x \in S : Cardinality({y \in S : y <= x}) = i

\* v lowercased with each run of non-alphanumeric characters replaced by one
\* underscore: the characters kept are the alphanumeric ones and the first
\* of every run of others
Collapsed(v) ==
  LET kept == {i \in 1..Len(v) : IsAlnum(v[i]) \/ i = 1 \/ IsAlnum(v[i - 1])}
  IN [j \in 1..Cardinality(kept) |->
        IF IsAlnum(v[Nth(kept, j)]) THEN LowerChar(v[Nth(kept, j)]) ELSE "_"]

\* the keys of the context that hold the object
KeysOf(obj) == {k \in DOMAIN resp.context : resp.context[k] = obj}

\* C8: the context holds the object under 'object', and under
\* template_object_name when that is set, else under the collapsed verbose
\* name ('book' for Book); an object without type metadata and without an
\* override is held under 'object' only.
C8_ContextKeys ==
  resp.cls = "DetailView" /\ resp.stage = "response" =>
    /\ DOMAIN resp.context = KeysOf(resp.obj)
    /\ KeysOf(resp.obj) =
         {OBJECT} \cup
           (IF ~IsNone(conf.template_object_name) THEN {Val(conf.template_object_name)}
            ELSE IF HasMeta(resp.obj) THEN {Collapsed(resp.obj.meta.verbose_name)}
            ELSE {})
    /\ resp.obj.meta = BookMeta /\ IsNone(conf.template_object_name)
         => KeysOf(resp.obj) = {OBJECT, <<"b", "o", "o", "k">>}

\* a verbose name with capitals and runs of other characters was collapsed
C8_Witness ==
  /\ resp.cls = "DetailView" /\ resp.stage = "response"
  /\ resp.obj.meta = OddMeta /\ IsNone(conf.template_object_name)
  /\ <<"_", "b", "o", "_", "k", "_">> \in DOMAIN resp.context

\* the template names a view was constructed with: the list of extra names
\* and the single name
ExtraNames ==
  IF conf.cls = "PkgDetailView"
    THEN IF IsNone(conf.template_names) THEN <<>> ELSE Val(conf.template_names)
  ELSE IF conf.template_name.kind = "list" THEN conf.template_name.names ELSE <<>>

SingleName == IF conf.template_name.kind = "str" THEN conf.template_name.names ELSE <<>>

UsedCollection ==
  IF IsNone(resp.paginator) THEN resp.items ELSE Val(resp.paginator).object_list

NotConfigured == resp.stage = "get_items" /\ resp.exc = "ImproperlyConfigured"

C10_ExactlyOne ==
  ListServed =>
    /\ IsNone(conf.queryset) /\ IsNone(conf.items) => NotConfigured
    /\ ~IsNone(conf.queryset) /\ ~IsNone(conf.items) => NotConfigured
    /\ ~IsNone(conf.queryset) /\ IsNone(conf.items) /\ ItemsReturned
         => UsedCollection = Clone(Val(conf.queryset))
    /\ IsNone(conf.queryset) /\ ~IsNone(conf.items) /\ ItemsReturned
         => UsedCollection = Val(conf.items)

\* C10 amended: get_items fails with ImproperlyConfigured exactly when
\* neither queryset nor items is configured; when queryset is configured,
\* alone or together with items, it uses a clone of the queryset (items is
\* ignored); with only items it uses items.
C10_QuerysetFirst ==
  ListServed =>
    /\ NotConfigured <=> IsNone(conf.queryset) /\ IsNone(conf.items)
    /\ ~IsNone(conf.queryset) /\ ItemsReturned
         => UsedCollection = Clone(Val(conf.queryset))
    /\ IsNone(conf.queryset) /\ ~IsNone(conf.items) /\ ItemsReturned
         => UsedCollection = Val(conf.items)

\* both were configured and the queryset's clone was listed
C10_Witness ==
  /\ ListServed /\ ~IsNone(conf.queryset) /\ ~IsNone(conf.items)
  /\ ItemsReturned /\ Len(resp.items.rows) = 1
  /\ UsedCollection = Clone(Val(conf.queryset))


(***************************************************************************)
(* Properties of the list context.                                         *)
(***************************************************************************)
\* a ListView request that got as far as its response
ListResponded == ListServed /\ resp.stage = "response"

StdKeys == {Key("object_list"), Key("paginator"), Key("page_obj"), Key("is_paginated")}

LegacyKeys ==
  {Key("page"), Key("pages"), Key("hits"), Key("next"), Key("previous"),
   Key("has_next"), Key("has_previous"), Key("first_on_page"), Key("last_on_page"),
   Key("results_per_page"), Key("page_range")}

\* the keys of the context that are neither the four list keys nor legacy keys
NamedKeys == DOMAIN resp.context \ (StdKeys \cup LegacyKeys)

\* template_object_name is set (to a str that is not empty)
Overridden == ~IsNone(conf.template_object_name) /\ Val(conf.template_object_name) # <<>>

\* C11: the list context holds object_list, paginator, page_obj and
\* is_paginated, and the items under the one key '<name>_list', <name> being
\* template_object_name when that is set and else, for a queryset, the
\* model's plural verbose name; a plain collection without override adds no
\* named key.
C11_NamedListKey ==
  ListResponded =>
    /\ StdKeys \subseteq DOMAIN resp.context
    /\ resp.context[Key("object_list")] = resp.items
    /\ resp.context[Key("paginator")] = resp.paginator
    /\ resp.context[Key("page_obj")] = resp.page
    /\ \A k \in NamedKeys : resp.context[k] = resp.items
    /\ NamedKeys =
         IF Overridden THEN {Val(conf.template_object_name) \o <<"_list">>}
         ELSE IF HasModel(resp.items)
           THEN {resp.items.model.verbose_name \o <<"s">> \o <<"_list">>}
         ELSE {}

\* what list.py does: as C11, except that for a queryset without override the
\* key is the plural verbose name itself, without '_list'
ListPy_NamedListKey ==
  ListResponded =>
    /\ StdKeys \subseteq DOMAIN resp.context
    /\ resp.context[Key("object_list")] = resp.items
    /\ \A k \in NamedKeys : resp.context[k] = resp.items
    /\ NamedKeys =
         IF Overridden THEN {Val(conf.template_object_name) \o <<"_list">>}
         ELSE IF HasModel(resp.items) THEN {resp.items.model.verbose_name \o <<"s">>}
         ELSE {}

LegacyOn == IsNone(conf.legacy_context) \/ Val(conf.legacy_context)

\* C12: the eleven flat legacy keys are all in the list context when
\* legacy_context is on (the default) and the list is paginated, and none of
\* them is when legacy_context is off or the list is not paginated.
C12_LegacyKeys ==
  ListResponded =>
    IF LegacyOn /\ ~IsNone(resp.paginator)
      THEN LegacyKeys \subseteq DOMAIN resp.context
      ELSE LegacyKeys \cap DOMAIN resp.context = {}

\* the second page of a paginated list was served with the legacy keys
C12_Witness ==
  /\ ListResponded /\ ~IsNone(resp.paginator) /\ IsNone(conf.legacy_context)
  /\ Val(resp.page).number = 2
  /\ LegacyKeys \subseteq DOMAIN resp.context
  /\ resp.context[Key("page")] = 2 /\ resp.context[Key("has_previous")]


AllButTemplateList ==
  /\ [view EXCEPT !.template_name = conf.template_name] = conf
  /\ conf.template_name.kind # "list" => view = conf


(***************************************************************************)
(* Properties of the date views.                                           *)
(***************************************************************************)
DateClasses == {"ArchiveView", "YearView", "MonthView", "WeekView"}

DateServed == resp.cls \in DateClasses
DateResponded == DateServed /\ resp.stage = "response"
MonthResponded == resp.cls = "MonthView" /\ resp.stage = "response"

Today == resp.request.today

\* the days of the rows of the configured table
TableDays == {Val(conf.queryset).rows[i].pubdate : i \in 1..Len(Val(conf.queryset).rows)}

\* the first day of the calendar month after, and before, the month of d
CalendarNext(d) == Date(d.year + (d.month \div 12), (d.month % 12) + 1, 1)
CalendarPrevious(d) ==
  IF d.month = 1 THEN Date(d.year - 1, 12, 1) ELSE Date(d.year, d.month - 1, 1)

FirstOfMonth(d) == Date(d.year, d.month, 1)

Earliest(S) == CHOOSE d \in S : \A e \in S : DateLE(d, e)
Latest(S) == CHOOSE d \in S : \A e \in S : DateLE(e, d)

\* C14: with allow_empty and allow_future both true, next_month() returns
\* the first day of the calendar month after the viewed month (January of the
\* next year after December), whatever rows exist and whatever today is, and
\* asks the data store nothing.
C14_NextMonthCheap ==
  MonthResponded /\ conf.allow_empty /\ conf.allow_future =>
    /\ resp.next_month.value = Some(CalendarNext(resp.date))
    /\ resp.next_month.queries = 0

\* December of a year without rows after it was viewed
C14_Witness ==
  /\ MonthResponded /\ conf.allow_empty /\ conf.allow_future
  /\ resp.date = Date(2023, 12, 1)
  /\ TableDays = {Date(2023, 1, 15)}
  /\ resp.next_month.value = Some(Date(2024, 1, 1))

\* C15: with allow_empty false, the candidate of next_month() is the first
\* day of the month of the earliest row dated on or after the first day of
\* the month after the viewed month; without such a row next_month() returns
\* None.
C15_NextCandidate ==
  MonthResponded /\ ~conf.allow_empty =>
    LET later == {d \in TableDays : DateLE(CalendarNext(resp.date), d)}
    IN IF later = {}
         THEN resp.next_month.candidate = None /\ resp.next_month.value = None
         ELSE resp.next_month.candidate = Some(FirstOfMonth(Earliest(later)))

\* January was viewed and the next row is of December
C15_Witness ==
  /\ MonthResponded /\ ~conf.allow_empty
  /\ resp.date = Date(2023, 1, 1)
  /\ TableDays = {Date(2023, 1, 15), Date(2023, 12, 31)}
  /\ resp.next_month.candidate = Some(Date(2023, 12, 1))

\* the final step as the claim states it
FutureChecked(nav) ==
  nav.value = IF IsNone(nav.candidate) THEN None
              ELSE IF ~conf.allow_future /\ DateLT(Today, Val(nav.candidate)) THEN None
              ELSE nav.candidate

\* C16: the final step of next_month() and previous_month() returns None
\* exactly when the candidate is None, or allow_future is false and the
\* candidate is strictly after today; otherwise, also when the candidate is
\* today, it returns the candidate.
C16_FutureCheck ==
  MonthResponded => FutureChecked(resp.next_month) /\ FutureChecked(resp.previous_month)

\* what dates.py does: the candidate is returned when the future is allowed
\* or the candidate is strictly before today
StrictlyPastChecked(nav) ==
  nav.value = IF IsNone(nav.candidate) THEN None
              ELSE IF conf.allow_future \/ DateLT(Val(nav.candidate), Today) THEN nav.candidate
              ELSE None

DatesPy_FutureCheck ==
  MonthResponded =>
    StrictlyPastChecked(resp.next_month) /\ StrictlyPastChecked(resp.previous_month)

\* C17: with allow_empty false, the candidate of previous_month() is the
\* first day of the latest month before the viewed month that holds a row,
\* whatever the row's day of the month; previous_month() returns None only
\* when no row is dated before the viewed month or the future check rejects
\* the candidate.
C17_PreviousValidMonth ==
  MonthResponded /\ ~conf.allow_empty =>
    LET earlier == {d \in TableDays : DateLT(d, resp.date)}
    IN IF earlier = {}
         THEN resp.previous_month.candidate = None /\ resp.previous_month.value = None
         ELSE /\ resp.previous_month.candidate = Some(FirstOfMonth(Latest(earlier)))
              /\ resp.previous_month.value = None
                   => ~conf.allow_future /\ DateLE(Today, FirstOfMonth(Latest(earlier)))

\* what dates.py does: only rows dated on or before the first day of the
\* calendar month before the viewed month are looked at
DatesPy_PreviousMonth ==
  MonthResponded /\ ~conf.allow_empty =>
    LET earlier == {d \in TableDays : DateLE(d, CalendarPrevious(resp.date))}
    IN resp.previous_month.candidate =
         IF earlier = {} THEN None ELSE Some(FirstOfMonth(Latest(earlier)))

\* the period of the request, as the view parses it
PeriodOK ==
  CASE resp.cls = "ArchiveView" -> TRUE
    [] resp.cls = "YearView" -> IntOfStr(resp.request.year).ok
    [] resp.cls = "MonthView" ->
         _date_from_string_month(resp.request.year, resp.request.month).exc = ""
    [] resp.cls = "WeekView" ->
         _date_from_string_week(resp.request.year, resp.request.week).exc = ""

InPeriod(d) ==
  CASE resp.cls = "ArchiveView" -> TRUE
    [] resp.cls = "YearView" -> d.year = IntOfStr(resp.request.year).val
    [] resp.cls = "MonthView" ->
         LET first == _date_from_string_month(resp.request.year, resp.request.month).date
         IN d.year = first.year /\ d.month = first.month
    [] resp.cls = "WeekView" ->
         LET first == _date_from_string_week(resp.request.year, resp.request.week).date
         IN DateLE(first, d) /\ DateLT(d, AddDays(first, 7))

PeriodDays == {d \in TableDays : InPeriod(d)}

ItemDays == {resp.items.rows[i].pubdate : i \in 1..Len(resp.items.rows)}

\* the granularity of the view's date list
DateType ==
  CASE resp.cls = "ArchiveView" -> "year"
    [] resp.cls = "YearView" -> "month"
    [] resp.cls = "MonthView" -> "day"
    [] resp.cls = "WeekView" -> "day"

DateListDays ==
  IF IsNone(resp.date_list) THEN {}
  ELSE {Val(resp.date_list)[i] : i \in 1..Len(Val(resp.date_list))}

\* the view lists every row of its queryset (a year view only with
\* make_object_list; an archive lists the num_latest latest)
ListsAll ==
  \/ resp.cls \in {"MonthView", "WeekView"}
  \/ resp.cls = "YearView" /\ conf.make_object_list
  \/ resp.cls = "ArchiveView" /\ conf.num_latest >= Cardinality(TableDays)

\* C18: when allow_future is false, every row a date view returns as an item
\* and every row behind an entry of its date list is dated not later than
\* now; when allow_future is true no row of the period is left out for being
\* in the future.
C18_FutureRows ==
  DateResponded =>
    LET kept == IF conf.allow_future THEN PeriodDays
                ELSE {d \in PeriodDays : DateLE(d, Today)}
    IN /\ ItemDays \subseteq kept
       /\ ListsAll => ItemDays = kept
       /\ ~IsNone(resp.date_list) => DateListDays = {Truncate(d, DateType) : d \in kept}

\* an archive left the row of the future out
C18_Witness ==
  /\ DateResponded /\ resp.cls = "ArchiveView" /\ ~conf.allow_future
  /\ TableDays = {Date(2023, 1, 15), Date(2023, 12, 31)}
  /\ Today = Date(2023, 2, 1)
  /\ ItemDays = {Date(2023, 1, 15)}
  /\ resp.date_list = Some(<<Date(2023, 1, 1)>>)

\* C19: every date view constructed without allow_empty has allow_empty
\* false, and every one constructed without allow_future has allow_future
\* false.
C19_DefaultsFalse ==
  conf.cls \in DateClasses =>
    /\ IsNone(conf.kwargs.allow_empty) => ~conf.allow_empty
    /\ IsNone(conf.kwargs.allow_future) => ~conf.allow_future

\* what dates.py does: the year, month and week views default allow_empty
\* to false, the archive keeps ListView's true; allow_future defaults to false
DatesPy_Defaults ==
  conf.cls \in DateClasses =>
    /\ IsNone(conf.kwargs.allow_empty) => (conf.allow_empty <=> conf.cls = "ArchiveView")
    /\ IsNone(conf.kwargs.allow_future) => ~conf.allow_future
    /\ ~IsNone(conf.kwargs.allow_empty) => conf.allow_empty = Val(conf.kwargs.allow_empty)
    /\ ~IsNone(conf.kwargs.allow_future) => conf.allow_future = Val(conf.kwargs.allow_future)

\* the rows left after the period filter and the future filter
RemainingDays ==
  IF conf.allow_future THEN PeriodDays ELSE {d \in PeriodDays : DateLE(d, Today)}

\* C20: a date view with allow_empty false fails with Http404 whenever no
\* row is left after the period filter and the future filter; with
\* allow_empty true the same request succeeds with an empty item list and an
\* empty date list.
C20_EmptyPeriod ==
  DateServed /\ ~IsNone(conf.queryset) /\ PeriodOK /\ RemainingDays = {} =>
    IF ~conf.allow_empty THEN resp.exc = "Http404"
    ELSE /\ resp.stage = "response" /\ resp.exc = ""
         /\ resp.items.rows = <<>>
         /\ DateListDays = {}

\* what dates.py does: as C20, except that an archive without rows, whose
\* items are None, needs a configured template_name
DatesPy_EmptyPeriod ==
  DateServed /\ ~IsNone(conf.queryset) /\ PeriodOK /\ RemainingDays = {} =>
    IF ~conf.allow_empty THEN resp.exc = "Http404" /\ resp.stage = "get_dated_items"
    ELSE IF resp.cls = "ArchiveView" /\ conf.template_name.kind = "none"
      THEN resp.exc = "ImproperlyConfigured" /\ resp.stage = "get_template"
    ELSE /\ resp.stage = "response" /\ resp.exc = ""
         /\ resp.items.rows = <<>>
         /\ DateListDays = {}


(***************************************************************************)
(* Properties of the date tokens of a request.                             *)
(***************************************************************************)
\* the tokens of the requests that are what their directive asks for: a
\* year of four digits, an abbreviated month name, a week number
GoodYears == {<<"2", "0", "2", "3">>, <<"2", "0", "2", "4">>}
GoodMonths == {<<"j", "a", "n">>, <<"f", "e", "b">>, <<"m", "a", "r">>, <<"D", "e", "c">>}
GoodWeeks == {<<"0">>, <<"1">>, <<"2">>, <<"0", "3">>}

\* the request carries a token that does not parse
Malformed ==
  \/ resp.cls = "YearView" /\ resp.request.year \notin GoodYears \cup {<<" ", "2", "0", "2", "3">>}
  \/ resp.cls = "MonthView"
       /\ (resp.request.year \notin GoodYears \/ resp.request.month \notin GoodMonths)
  \/ resp.cls = "WeekView"
       /\ (resp.request.year \notin GoodYears \/ resp.request.week \notin GoodWeeks)

WellFormed == resp.cls \in {"MonthView", "WeekView"} /\ ~Malformed

RequestedYear == IF resp.request.year = <<"2", "0", "2", "3">> THEN 2023 ELSE 2024

\* [start, end) of the requested month or week
Window ==
  IF resp.cls = "MonthView"
    THEN LET m == CASE resp.request.month = <<"j", "a", "n">> -> 1
                    [] resp.request.month = <<"f", "e", "b">> -> 2
                    [] resp.request.month = <<"m", "a", "r">> -> 3
                    [] resp.request.month = <<"D", "e", "c">> -> 12
         IN [start |-> Date(RequestedYear, m, 1),
             end |-> IF m = 12 THEN Date(RequestedYear + 1, 1, 1)
                               ELSE Date(RequestedYear, m + 1, 1)]
    ELSE CASE RequestedYear = 2023 /\ resp.request.week = <<"0">> ->
                [start |-> Date(2023, 1, 1), end |-> Date(2023, 1, 8)]
           [] RequestedYear = 2023 /\ resp.request.week = <<"2">> ->
                [start |-> Date(2023, 1, 8), end |-> Date(2023, 1, 15)]
           [] RequestedYear = 2023 /\ resp.request.week = <<"0", "3">> ->
                [start |-> Date(2023, 1, 15), end |-> Date(2023, 1, 22)]
           [] RequestedYear = 2024 /\ resp.request.week = <<"0">> ->
                [start |-> Date(2023, 12, 31), end |-> Date(2024, 1, 7)]
           [] RequestedYear = 2024 /\ resp.request.week = <<"1">> ->
                [start |-> Date(2024, 1, 7), end |-> Date(2024, 1, 14)]

\* the rows of the window that the future filter lets through
WindowDays ==
  {d \in TableDays : /\ DateLE(Window.start, d) /\ DateLT(d, Window.end)
                     /\ (conf.allow_future \/ DateLE(d, Today))}

\* C22: the month view returns the rows of [first day of the month, first
\* day of the next month), December's window ending on 1 January of the next
\* year, and the week view those of [week start, week start + 7 days): a row
\* dated on the window's end is left out and one dated on its start is kept
\* (among the rows the future filter lets through), and the view fails with
\* Http404 only when no such row is left.
C22_HalfOpenWindow ==
  DateServed /\ WellFormed /\ ~IsNone(conf.queryset) =>
    /\ resp.stage = "response" =>
         /\ resp.date = Window.start
         /\ ItemDays = WindowDays
         /\ Window.end \notin ItemDays
    /\ resp.stage = "get_dated_items" =>
         resp.exc = "Http404" /\ WindowDays = {} /\ ~conf.allow_empty

\* December 2023 was viewed over rows dated 31 December and 1 January
C22_Witness ==
  /\ DateResponded /\ WellFormed
  /\ resp.cls = "MonthView" /\ Window.start = Date(2023, 12, 1)
  /\ TableDays = {Date(2023, 12, 31), Date(2024, 1, 1)}
  /\ ItemDays = {Date(2023, 12, 31)}
  /\ DateLT(Date(2024, 1, 1), Today)

\* the week that starts on 8 January 2023 was viewed over a row dated on
\* its end, and the week that starts on 15 January over a row dated on its
\* start
WeekEndLeftOut ==
  /\ DateResponded /\ WellFormed
  /\ resp.cls = "WeekView" /\ Window.end = Date(2023, 1, 15)
  /\ Date(2023, 1, 15) \in TableDays
  /\ ItemDays = {}

WeekStartKept ==
  /\ DateResponded /\ WellFormed
  /\ resp.cls = "WeekView" /\ Window.start = Date(2023, 1, 15)
  /\ ItemDays = {Date(2023, 1, 15)}


(***************************************************************************)
(* Properties of the callables of a month's context.                       *)
(***************************************************************************)
Rendering(t) == threads[t].exc = ""

\* every value of the sequence is v
AllAre(seq, v) == \A i \in 1..Len(seq) : seq[i] = v

\* C23: on every thread, next_month() and previous_month() run the
\* computation behind them once if they are called and not at all if they
\* are not, and every call returns what get_next_month (get_previous_month)
\* gives for the thread's own request, whatever the other thread memoized.
C23_MemoPerRequest ==
  \A t \in Threads :
    Rendering(t) =>
      LET call == threads[t]
      IN /\ call.runs.next = (IF call.calls.next = <<>> THEN 0 ELSE 1)
         /\ call.runs.prev = (IF call.calls.prev = <<>> THEN 0 ELSE 1)
         /\ AllAre(call.calls.next,
                   MonthView_get_next_month(conf, call.request.today, call.date).value)
         /\ AllAre(call.calls.prev,
                   MonthView_get_previous_month(conf, call.request.today, call.date).value)

\* two threads render different months; each called next_month() twice, one
\* got February both times and the other None both times
C23_Witness ==
  /\ Rendering("t1") /\ Rendering("t2")
  /\ threads["t1"].calls.next = <<Some(Date(2023, 2, 1)), Some(Date(2023, 2, 1))>>
  /\ threads["t2"].calls.next = <<None, None>>
  /\ threads["t1"].runs.next = 1 /\ threads["t2"].runs.next = 1
  /\ threads["t2"].calls.prev = <<>> /\ threads["t2"].runs.prev = 0


(***************************************************************************)
(* Properties of the order of a request's steps.                           *)
(***************************************************************************)
\* the step that resolves the object or the collection
LookupStages == {"get_items", "get_object", "get_dated_items"}

\* the context a request that built none is left with
NoContextBuilt == resp'.context = IF resp'.cls \in {"DetailView", "PkgDetailView"}
                                   THEN <<>> ELSE NoContext

\* C24: a request ends at one of its steps, in the order lookup, template
\* names, template, context, response.  One that fails at the lookup has
\* resolved no template name (the instance's name list is as it was), loaded
\* no template and built no context; one that fails for want of a template
\* name has loaded no template and built no context; one that responds has
\* failed at no step and has its names, its template and its context.
C24_PipelineOrder ==
  [][/\ resp'.stage \in LookupStages \cup {"get_template", "response"}
     /\ resp'.stage \in LookupStages =>
          /\ resp'.exc # ""
          /\ view' = view
          /\ resp'.names = <<>> /\ resp'.template = <<>> /\ NoContextBuilt
     /\ resp'.stage = "get_template" =>
          /\ resp'.exc = "ImproperlyConfigured"
          /\ resp'.names = <<>> /\ resp'.template = <<>> /\ NoContextBuilt
     /\ resp'.stage = "response" =>
          /\ resp'.exc = ""
          /\ resp'.names # <<>> /\ resp'.template = resp'.names[1]
          /\ ~NoContextBuilt]_<<view, resp>>

\* a list view with a list of template names was asked for a page that is
\* not there, after a request that it answered
C24_Witness ==
  /\ resp.cls = "ListView" /\ resp.stage = "get_items" /\ resp.exc = "Http404"
  /\ conf.template_name.kind = "list"
  /\ view # conf


(***************************************************************************)
(* Properties of the months that navigation returns.                       *)
(***************************************************************************)
\* the rows that the month view of month N shows on the day of the request
ShownIn(N) ==
  {d \in TableDays : /\ d.year = N.year /\ d.month = N.month
                     /\ (conf.allow_future \/ DateLE(d, Today))}

\* C25: with allow_empty false, a month that next_month() or
\* previous_month() returns is one whose month view, with the same instance,
\* rows and day, has at least one item.
C25_NavigationSound ==
  MonthResponded /\ ~conf.allow_empty =>
    /\ ~IsNone(resp.next_month.value) => ShownIn(Val(resp.next_month.value)) # {}
    /\ ~IsNone(resp.previous_month.value) =>
         ShownIn(Val(resp.previous_month.value)) # {}

\* dates.py as written: a month that previous_month() returns has an item
\* to show; one that next_month() returns has a row, which is shown unless
\* it is dated after today
DatesPy_NavigationSound ==
  MonthResponded /\ ~conf.allow_empty =>
    /\ ~IsNone(resp.next_month.value) =>
         LET N == Val(resp.next_month.value)
         IN /\ \E d \in TableDays : d.year = N.year /\ d.month = N.month
            /\ conf.allow_future => ShownIn(N) # {}
    /\ ~IsNone(resp.previous_month.value) =>
         ShownIn(Val(resp.previous_month.value)) # {}


(***************************************************************************)
(* Properties of is_paginated.                                             *)
(***************************************************************************)
\* C26: in a list view's context is_paginated is true exactly when a
\* paginator was applied, that is when paginator and page_obj are not None,
\* whatever the page size, the length of the collection and legacy_context.
C26_IsPaginated ==
  ListResponded =>
    /\ IsNone(resp.context[Key("paginator")]) = IsNone(resp.context[Key("page_obj")])
    /\ resp.context[Key("is_paginated")] = ~IsNone(resp.context[Key("paginator")])

\* list.py as written: with the legacy context on, is_paginated of a
\* paginated list says whether there is more than one page
ListPy_IsPaginated ==
  ListResponded =>
    /\ IsNone(resp.context[Key("paginator")]) = IsNone(resp.context[Key("page_obj")])
    /\ resp.context[Key("is_paginated")] =
         IF IsNone(resp.paginator) THEN FALSE
         ELSE IF LegacyOn THEN PageCount > 1
         ELSE TRUE


(***************************************************************************)
(* Properties of the template a date view falls back to.                   *)
(***************************************************************************)
\* the name the view puts last, after the configured ones
Fallback == resp.names[Len(resp.names)]

\* C27: the template name a date view derives from the model of its items is
\* none of the names the other three date views derive from that model.
C27_OwnSuffix ==
  DateResponded /\ HasModel(resp.items) =>
    \A cls \in DateClasses \ {resp.cls} :
      Fallback # ConventionName(resp.items.model, TemplateNameSuffix(cls))

\* dates.py as written: the archive, the year view and the month view fall
\* back to <app>/<model>_archive.html, _archive_year.html and
\* _archive_month.html, and the week view to the year view's name
DatesPy_Suffixes ==
  DateResponded /\ HasModel(resp.items) =>
    Fallback = ConventionName(resp.items.model,
                              CASE resp.cls = "ArchiveView" -> "archive"
                                [] resp.cls = "MonthView" -> "archive_month"
                                [] OTHER -> "archive_year")

=============================================================================
